---- MODULE Spec2Model ----
(***************************************************************************)
(* Model of the rental-property backend: the availability filter of the   *)
(* list endpoint (rentals/filters.py) and the dynamic pricing calculator  *)
(* of the calculate_price endpoint (rentals/views.py), over the bookings  *)
(* and pricing_rules tables of rentals/models.py.                         *)
(*                                                                         *)
(* Dates are day ordinals.  Decimal values are records [coef, exp] with   *)
(* value coef * 10^exp, as Python's decimal.Decimal keeps them.           *)
(***************************************************************************)
EXTENDS Integers, Sequences, FiniteSets, Bags

\* ------------------------------------------------------------------ bounds
MaxBookingDate == 3
MaxBookings == 2
MaxStayDate == 4
MaxRules == 2
MaxProperties == 3
MaxChildRows == 3

\* Two properties: the one a request is about and another one.
Props == {1, 2}
BookingDates == 1..MaxBookingDate
StayDates == 1..MaxStayDate

\* Amounts in hundredths.  The first property costs 100.00 a night, the
\* others 25.99; a rule multiplies by 1.50 or by 0.80.
BasePriceOf(p) == IF p = 1 THEN 10000 ELSE 2599
Multipliers == {150, 80}

\* ------------------------------------------------------- models.py: Booking
\* Rows are bookings whose check_out is not before their check_in, and rules
\* whose end_date is not before their start_date, as the imported data has.
BOOKING_STATUS == {"confirmed", "pending", "cancelled", "completed"}

BookingRows ==
    {b \in [property : Props, check_in : BookingDates, check_out : BookingDates,
            status : BOOKING_STATUS] : b.check_in <= b.check_out}

\* --------------------------------------------------- models.py: PricingRule
PricingRuleRows ==
    {r \in [property : Props, start_date : StayDates, end_date : StayDates,
            price_multiplier : Multipliers] : r.start_date <= r.end_date}

\* A query parameter that is absent or empty (request.query_params.get
\* returns None or '', both falsy).
NoParam == 0
\* A query parameter whose text is no date (neither forms.DateField nor
\* datetime.strptime(.., '%Y-%m-%d') accepts it).
BadDate == -1

\* ------------------------------------------------ decimal.Decimal values
RECURSIVE Pow10(_)
Pow10(n) == IF n = 0 THEN 1 ELSE 10 * Pow10(n - 1)

Min(a, b) == IF a <= b THEN a ELSE b

\* Decimal('0.00'), Decimal('1.0'), and a NUMERIC(.., 2) column value.
Decimal_0_00 == [coef |-> 0, exp |-> -2]
Decimal_1_0 == [coef |-> 10, exp |-> -1]
Numeric2(hundredths) == [coef |-> hundredths, exp |-> -2]

\* Mutant of DecAdd: the coefficients are added without aligning exponents.
DecAdd_Unaligned(a, b) ==
    [coef |-> a.coef + b.coef, exp |-> IF a.exp <= b.exp THEN a.exp ELSE b.exp]

\* Decimal.__mul__ and Decimal.__add__: exact, exponents sum / take the least.
\* Mutant of DecMul: the product is cut to two places, as a money column is.
DecMul_Rounded(a, b) ==
    [coef |-> (a.coef * b.coef) \div Pow10(-(a.exp + b.exp) - 2), exp |-> -2]

DecMul(a, b) == [coef |-> a.coef * b.coef, exp |-> a.exp + b.exp]

DecAdd(a, b) ==
    LET e == Min(a.exp, b.exp)
    IN  [coef |-> a.coef * Pow10(a.exp - e) + b.coef * Pow10(b.exp - e), exp |-> e]

\* The k decimal digits of n, most significant first (n < 10^k).
Digits(n, k) == [i \in 1..k |-> (n \div Pow10(k - i)) % 10]

RECURSIVE NumDigits(_)
NumDigits(n) == IF n = 0 THEN 0 ELSE 1 + NumDigits(n \div 10)

\* str(Decimal): the integer part and the digits after the point.
DecStr(d) ==
    [int |-> d.coef \div Pow10(-d.exp),
     frac |-> Digits(d.coef % Pow10(-d.exp), -d.exp)]

\* Precision of Python's default decimal context, which Decimal.__truediv__
\* rounds to (ROUND_HALF_EVEN).
DecimalPrec == 28

\* The digits of r / n that follow the digits already produced, until the
\* division comes out even or the precision is used up; `up` says whether
\* the digit string is then to be rounded up.  sig counts the significant
\* digits produced so far, last is the latest digit.
RECURSIVE DivTail(_, _, _, _)
DivTail(r, n, sig, last) ==
    IF r = 0 THEN [digits |-> <<>>, up |-> FALSE]
    ELSE IF sig >= DecimalPrec
    THEN [digits |-> <<>>,
          up |-> (2 * r > n) \/ (2 * r = n /\ last % 2 = 1)]
    ELSE LET d == (10 * r) \div n
             more == DivTail((10 * r) % n, n,
                             IF sig = 0 /\ d = 0 THEN 0 ELSE sig + 1, d)
         IN  [digits |-> <<d>> \o more.digits, up |-> more.up]

\* Add one unit in the last place of a digit string; carry is the overflow
\* into the integer part.
RECURSIVE IncDigits(_)
IncDigits(ds) ==
    IF ds = <<>> THEN [digits |-> <<>>, carry |-> 1]
    ELSE LET n == Len(ds)
         IN  IF ds[n] < 9
             THEN [digits |-> [ds EXCEPT ![n] = ds[n] + 1], carry |-> 0]
             ELSE LET pre == IncDigits(SubSeq(ds, 1, n - 1))
                  IN  [digits |-> pre.digits \o <<0>>, carry |-> pre.carry]

\* str(a / n) for a Decimal a >= 0 and an int n > 0: an exact quotient keeps
\* the exponent of a when it can, an inexact one has DecimalPrec significant
\* digits.
DecDivStr(a, n) ==
    LET k == -a.exp
        Q == a.coef \div n
        whole == Q \div Pow10(k)
        head == Digits(Q % Pow10(k), k)
        tail == DivTail(a.coef % n, n, NumDigits(Q), Q % 10)
        frac == head \o tail.digits
        inc == IncDigits(frac)
    IN  IF tail.up
        THEN [int |-> whole + inc.carry, frac |-> inc.digits]
        ELSE [int |-> whole, frac |-> frac]

\* The value of a digit string in ten-thousandths, digits beyond the fourth
\* place cut off; and whether it has non-zero digits beyond that place.
StrVal4(s) ==
    s.int * 10000
      + (IF Len(s.frac) >= 1 THEN s.frac[1] * 1000 ELSE 0)
      + (IF Len(s.frac) >= 2 THEN s.frac[2] * 100 ELSE 0)
      + (IF Len(s.frac) >= 3 THEN s.frac[3] * 10 ELSE 0)
      + (IF Len(s.frac) >= 4 THEN s.frac[4] ELSE 0)

StrExact4(s) == \A i \in 1..Len(s.frac) : i > 4 => s.frac[i] = 0

VARIABLES
    bookings,              \* table bookings: a bag of rows
    pricing_rules_table,   \* table pricing_rules: a bag of rows
    base_price_per_night,  \* Property.base_price_per_night of every property
    list_resp,             \* the answer of the list request being served
    \* calculate_price: the request being served and its local variables
    pc,
    property_obj,
    check_in,
    check_out,
    nights,
    pricing_rules,
    total_price,
    daily_prices,
    current_date,
    calc_resp,
    calc_req,              \* the path and query parameters of that request
    \* table properties: id -> row, and the clock behind auto_now_add
    properties,
    clock,
    \* tables property_amenities (unique rows) and property_images (a bag),
    \* and what the last Property delete() returned
    property_amenities,
    property_images,
    delete_result,
    \* a list request with coordinates, or a nearby request, and its answer
    geo_req,
    geo_resp,
    \* the queryset that get_queryset() returned to the view for that request
    view_queryset,
    \* a request on a detail route (retrieve, availability) and its answer
    detail_req,
    detail_resp,
    \* the requests that the worker processes are serving at the same time:
    \* worker -> the request and its local variables
    workers,
    \* the SQLite file sample-data.db that the management commands read, and
    \* the last run of a command: its name, what it reported, its
    \* property_map and the tables as it left them
    sample_data_db,
    command

store == <<bookings, pricing_rules_table, base_price_per_night>>
calc_locals == <<property_obj, check_in, check_out, nights, pricing_rules,
                 total_price, daily_prices, current_date>>
calc_vars == <<pc, calc_locals, calc_resp, calc_req>>
catalog == <<properties, clock, property_amenities, property_images, delete_result>>
geo_vars == <<geo_req, geo_resp, view_queryset>>
\* What neither the availability filter nor calculate_price reads or writes.
detail_vars == <<detail_req, detail_resp>>
command_vars == <<sample_data_db, command>>
outside == <<catalog, geo_vars, detail_vars, workers, command_vars>>
vars == <<store, list_resp, calc_vars, outside>>

\* ------------------------------------------------ filters.py: the ORM query
\* property.bookings: the rows of the reverse relation of one property.
BookingsOf(tbl, p) == {b \in BagToSet(tbl) : b.property = p}

\* QuerySet.exclude over the multi-valued relation bookings__*: every lookup
\* of the Q object becomes its own correlated subquery, so the three
\* conditions are tested on the property's bookings independently of each
\* other; the property is dropped when all three subqueries are non-empty.
overlapping_bookings(tbl, p, req_in, req_out) ==
    /\ \E b \in BookingsOf(tbl, p) : b.status = "confirmed"
    /\ \E b \in BookingsOf(tbl, p) : b.check_in <= req_out
    /\ \E b \in BookingsOf(tbl, p) : b.check_out >= req_in

\* Mutant of filter_available_dates: one date is enough for the filter to
\* act; the date that is missing puts no limit on that side.
filter_available_dates_OneSided(tbl, queryset, req_in, req_out) ==
    IF req_in = NoParam /\ req_out = NoParam
    THEN queryset
    ELSE {p \in queryset :
            ~(/\ \E b \in BookingsOf(tbl, p) : b.status = "confirmed"
              /\ \E b \in BookingsOf(tbl, p) :
                     req_out = NoParam \/ b.check_in <= req_out
              /\ \E b \in BookingsOf(tbl, p) :
                     req_in = NoParam \/ b.check_out >= req_in)}

\* PropertyFilter.filter_available_dates: one call of the method.
filter_available_dates(tbl, queryset, req_in, req_out) ==
    IF req_in = NoParam \/ req_out = NoParam
    THEN queryset
    ELSE {p \in queryset : ~overlapping_bookings(tbl, p, req_in, req_out)}

\* django-filter calls the method of a declared filter once for every
\* parameter that carries a value: req_in first, then req_out.
PropertyFilter_qs(tbl, queryset, req_in, req_out) ==
    LET q1 == IF req_in # NoParam
              THEN filter_available_dates(tbl, queryset, req_in, req_out)
              ELSE queryset
    IN  IF req_out # NoParam
        THEN filter_available_dates(tbl, q1, req_in, req_out)
        ELSE q1

\* --------------------------------------- views.py: calculate_price helpers
\* property_obj.pricing_rules.all(): the rules of the property, in the order
\* of PricingRule.Meta.ordering = ['start_date']; rows with equal start_date
\* come in an order the database chooses.
RuleRowsOf(tbl, p) == {r \in BagToSet(tbl) : r.property = p}

RuleCount(tbl, p) ==
    BagCardinality([r \in RuleRowsOf(tbl, p) |-> CopiesIn(r, tbl)])

\* Mutant of pricing_rules_all: the rows come in any order, Meta.ordering
\* is not applied.
pricing_rules_all_Unordered(tbl, p) ==
    LET rows == RuleRowsOf(tbl, p)
        n == IF rows = {} THEN 0 ELSE RuleCount(tbl, p)
    IN  {s \in [1..n -> rows] :
            \A r \in rows : Cardinality({i \in 1..n : s[i] = r}) = CopiesIn(r, tbl)}

pricing_rules_all(tbl, p) ==
    LET rows == RuleRowsOf(tbl, p)
        n == IF rows = {} THEN 0 ELSE RuleCount(tbl, p)
    IN  {s \in [1..n -> rows] :
            /\ \A r \in rows : Cardinality({i \in 1..n : s[i] = r}) = CopiesIn(r, tbl)
            /\ \A i \in 1..n : \A j \in 1..n :
                   i < j => s[i].start_date <= s[j].start_date}

\* Mutant of Covers: the end_date is left out of the interval.
Covers_HalfOpen(rule, d) == rule.start_date <= d /\ d < rule.end_date

\* for rule in pricing_rules: if rule.start_date <= d <= rule.end_date: break
Covers(rule, d) == rule.start_date <= d /\ d <= rule.end_date

\* Mutant of FirstMatch: the loop over the rules has no break, the last
\* covering rule wins.
RECURSIVE FirstMatch_NoBreak(_, _, _)
FirstMatch_NoBreak(rules, d, i) ==
    IF i > Len(rules) THEN 0
    ELSE LET later == FirstMatch_NoBreak(rules, d, i + 1)
         IN  IF later # 0 THEN later
             ELSE IF rules[i].start_date <= d /\ d <= rules[i].end_date THEN i
             ELSE 0

RECURSIVE FirstMatch(_, _, _)
FirstMatch(rules, d, i) ==
    IF i > Len(rules) THEN 0
    ELSE IF Covers(rules[i], d) THEN i
    ELSE FirstMatch(rules, d, i + 1)

BaseRate == [name |-> "Base Rate", start_date |-> 0, end_date |-> 0]
Seasonal(rule) ==
    [name |-> "Seasonal", start_date |-> rule.start_date, end_date |-> rule.end_date]

\* Mutant of NightEntry: rule_name is not assigned when a rule matches.
NightEntry_KeepLabel(base, rules, d) ==
    LET i == FirstMatch(rules, d, 1)
        multiplier == IF i = 0 THEN Decimal_1_0
                      ELSE Numeric2(rules[i].price_multiplier)
        night_price == DecMul(base, multiplier)
    IN  [night_price |-> night_price,
         entry |-> [date |-> d,
                    base_price |-> DecStr(base),
                    multiplier |-> DecStr(multiplier),
                    final_price |-> DecStr(night_price),
                    pricing_rule |-> BaseRate]]

\* One pass of the body of the while loop for the night d.
NightEntry(base, rules, d) ==
    LET i == FirstMatch(rules, d, 1)
        multiplier == IF i = 0 THEN Decimal_1_0
                      ELSE Numeric2(rules[i].price_multiplier)
        rule_name == IF i = 0 THEN BaseRate ELSE Seasonal(rules[i])
        night_price == DecMul(base, multiplier)
    IN  [night_price |-> night_price,
         entry |-> [date |-> d,
                    base_price |-> DecStr(base),
                    multiplier |-> DecStr(multiplier),
                    final_price |-> DecStr(night_price),
                    pricing_rule |-> rule_name]]

\* Mutant of InvalidRange: equal dates pass the check.
InvalidRange_Strict(ci, co) == co < ci

\* check_out <= check_in
InvalidRange(ci, co) == co <= ci

\* Mutant of LoopCond: the loop runs through check_out.
LoopCond_Inclusive(d, co) == d <= co

\* The loop condition.
LoopCond(d, co) == d < co

\* Mutant of AveragePrice: the guard is off by one.
AveragePrice_OffByOne(total, n) ==
    IF n > 1 THEN DecDivStr(total, n) ELSE DecStr(Decimal_0_00)

\* total_price / nights if nights > 0 else Decimal('0.00'), then str().
AveragePrice(total, n) ==
    IF n > 0 THEN DecDivStr(total, n) ELSE DecStr(Decimal_0_00)

\* ------------------------------------------------------ models.py: Property
\* Coordinates are kilometres east and north of an origin on a plane, the
\* scale at which ST_DWithin and ST_Distance on the geography column are
\* compared; distances are kept squared.
Coords == {0, 6, 12}
Radii == {7, 14}

NoPoint == <<>>
Point(x, y) == <<x, y>>

DistanceSq(a, b) ==
    (a[1] - b[1]) * (a[1] - b[1]) + (a[2] - b[2]) * (a[2] - b[2])

\* Property.save(): if self.latitude and self.longitude: self.location = Point(..)
save_location(latitude, longitude, location) ==
    IF latitude # 0 /\ longitude # 0 THEN Point(longitude, latitude) ELSE location

\* The number of bedrooms of the row with a given id.
BedroomsOf(id) == 1 + (id % 2)

PropertyRow(id, latitude, longitude, now) ==
    [latitude |-> latitude,
     longitude |-> longitude,
     location |-> save_location(latitude, longitude, NoPoint),
     bedrooms |-> BedroomsOf(id),
     created_at |-> now]

\* The two properties that the availability and pricing requests are about.
InitialProperties == [p \in Props |-> PropertyRow(p, 6, 6 * p, p)]

\* ------------------------------------------------------------------ actions
NoResp == [kind |-> "none"]

\* A sample-data.db whose five tables are empty.
NoSource ==
    [properties |-> <<>>, amenities |-> <<>>, images |-> <<>>,
     pricing_rules |-> <<>>, bookings |-> <<>>]

NoDate == 0

\* Two worker processes, and a worker that serves no request.
Procs == {1, 2}
WorkerIdle ==
    [pc |-> "idle", req |-> NoResp, property_obj |-> 0, check_in |-> NoDate,
     check_out |-> NoDate, nights |-> 0, pricing_rules |-> <<>>,
     total_price |-> Decimal_0_00, daily_prices |-> <<>>,
     current_date |-> NoDate, resp |-> NoResp]

CalcIdle ==
    /\ pc = "idle"
    /\ property_obj = 0
    /\ check_in = NoDate
    /\ check_out = NoDate
    /\ nights = 0
    /\ pricing_rules = <<>>
    /\ total_price = Decimal_0_00
    /\ daily_prices = <<>>
    /\ current_date = NoDate
    /\ calc_resp = NoResp
    /\ calc_req = NoResp

Init ==
    /\ bookings = EmptyBag
    /\ pricing_rules_table = EmptyBag
    /\ base_price_per_night = [p \in Props |-> Numeric2(BasePriceOf(p))]
    /\ list_resp = NoResp
    /\ CalcIdle
    /\ properties = InitialProperties
    /\ clock = Cardinality(Props)
    /\ property_amenities = {}
    /\ property_images = EmptyBag
    /\ delete_result = NoResp
    /\ geo_req = NoResp
    /\ geo_resp = NoResp
    /\ view_queryset = NoResp
    /\ detail_req = NoResp
    /\ detail_resp = NoResp
    /\ workers = [w \in Procs |-> WorkerIdle]
    /\ sample_data_db = NoSource
    /\ command = NoResp

\* A booking row is written (import_data, load_sample_data, admin).
CreateBooking(b) ==
    /\ list_resp = NoResp
    /\ BagCardinality(bookings) < MaxBookings
    /\ b.property \in DOMAIN properties      \* the foreign key
    /\ bookings' = bookings (+) SetToBag({b})
    /\ UNCHANGED <<pricing_rules_table, base_price_per_night, list_resp, calc_vars>>
    /\ UNCHANGED outside

\* GET /api/properties/?check_in=..&check_out=..  over the properties that
\* the earlier filters of the pipeline left in the queryset.
List(queryset, req_in, req_out) ==
    /\ list_resp = NoResp
    /\ list_resp' = [kind |-> "list",
                     queryset |-> queryset,
                     check_in |-> req_in,
                     check_out |-> req_out,
                     results |-> PropertyFilter_qs(bookings, queryset, req_in, req_out)]
    /\ UNCHANGED <<store, calc_vars>>
    /\ UNCHANGED outside

\* The response is handed to the client; the worker is free again.
ListReturn ==
    /\ list_resp # NoResp
    /\ list_resp' = NoResp
    /\ UNCHANGED <<store, calc_vars>>
    /\ UNCHANGED outside

\* A pricing rule row is written (import_data, load_sample_data, admin).
CreatePricingRule(r) ==
    /\ pc = "idle"
    /\ calc_resp = NoResp
    /\ BagCardinality(pricing_rules_table) < MaxRules
    /\ r.property \in DOMAIN properties      \* the foreign key
    /\ pricing_rules_table' = pricing_rules_table (+) SetToBag({r})
    /\ UNCHANGED <<bookings, base_price_per_night, list_resp, calc_vars>>
    /\ UNCHANGED outside

Error400(msg) == [status |-> 400, error |-> msg]
Error404 == [status |-> 404, detail |-> "Not found."]

\* GenericAPIView.get_object(): filter_queryset(get_queryset()) and then the
\* row with the primary key of the path.  The filter backends run on detail
\* routes as on the list, so PropertyFilter reads check_in and check_out of
\* the request here too.  TRUE when the row is found, FALSE for Http404.
get_object(props, tbl, pk, req_in, req_out) ==
    pk \in PropertyFilter_qs(tbl, DOMAIN props, req_in, req_out)

\* GET /api/properties/{p}/calculate_price/?check_in=..&check_out=..
\* from get_object() to the first test of the while loop.  A date text that
\* is no date is refused by the DateFilter of PropertyFilter inside
\* get_object(), before the view reads it, so strptime never fails.
CalcPriceBegin(p, check_in_str, check_out_str) ==
    /\ pc = "idle"
    /\ calc_resp = NoResp
    /\ calc_req' = [property |-> p, check_in |-> check_in_str,
                    check_out |-> check_out_str]
    /\ IF check_in_str = BadDate \/ check_out_str = BadDate
       THEN /\ calc_resp' = Error400("Enter a valid date.")
            /\ pc' = "done"
            /\ UNCHANGED calc_locals
       ELSE IF ~get_object(properties, bookings, p, check_in_str, check_out_str)
       THEN /\ calc_resp' = Error404
            /\ pc' = "done"
            /\ UNCHANGED calc_locals
       ELSE IF check_in_str = NoParam \/ check_out_str = NoParam
       THEN /\ calc_resp' = Error400("check_in and check_out dates are required")
            /\ pc' = "done"
            /\ property_obj' = p
            /\ UNCHANGED <<check_in, check_out, nights, pricing_rules,
                           total_price, daily_prices, current_date>>
       ELSE IF InvalidRange(check_in_str, check_out_str)
       THEN /\ calc_resp' = Error400("check_out must be after check_in")
            /\ pc' = "done"
            /\ property_obj' = p
            /\ check_in' = check_in_str
            /\ check_out' = check_out_str
            /\ UNCHANGED <<nights, pricing_rules, total_price, daily_prices,
                           current_date>>
       ELSE /\ property_obj' = p
            /\ check_in' = check_in_str
            /\ check_out' = check_out_str
            /\ nights' = check_out_str - check_in_str
            \* the queryset is read once, by the first pass of the for loop,
            \* and cached; the tables do not change while a request is served
            /\ pricing_rules' \in pricing_rules_all(pricing_rules_table, p)
            /\ total_price' = Decimal_0_00
            /\ daily_prices' = <<>>
            /\ current_date' = check_in_str
            /\ pc' = "loop"
            /\ UNCHANGED calc_resp
    /\ UNCHANGED <<store, list_resp>>
    /\ UNCHANGED outside

\* Mutant of NextDate: the date stays where it is.
NextDate_Stuck(d) == d

\* current_date += timedelta(days=1)
NextDate(d) == d + 1

\* One iteration of  while current_date < check_out.
CalcPriceNight ==
    /\ pc = "loop"
    /\ LoopCond(current_date, check_out)
    /\ LET night == NightEntry(base_price_per_night[property_obj],
                               pricing_rules, current_date)
       IN  /\ total_price' = DecAdd(total_price, night.night_price)
           /\ daily_prices' = Append(daily_prices, night.entry)
    /\ current_date' = NextDate(current_date)
    /\ UNCHANGED <<store, list_resp, pc, property_obj, check_in, check_out,
                   nights, pricing_rules, calc_resp, calc_req>>
    /\ UNCHANGED outside

\* The loop has ended: the average and the response.
CalcPriceFinish ==
    /\ pc = "loop"
    /\ ~LoopCond(current_date, check_out)
    /\ calc_resp' = [status |-> 200,
                     property_id |-> property_obj,
                     check_in |-> check_in,
                     check_out |-> check_out,
                     nights |-> nights,
                     base_price_per_night |->
                         DecStr(base_price_per_night[property_obj]),
                     total_price |-> DecStr(total_price),
                     average_price_per_night |-> AveragePrice(total_price, nights),
                     daily_breakdown |-> daily_prices]
    /\ pc' = "done"
    /\ UNCHANGED <<store, list_resp, calc_locals, calc_req>>
    /\ UNCHANGED outside

\* The response is handed to the client; the locals of the request are gone.
CalcPriceReturn ==
    /\ pc = "done"
    /\ pc' = "idle"
    /\ property_obj' = 0
    /\ check_in' = NoDate
    /\ check_out' = NoDate
    /\ nights' = 0
    /\ pricing_rules' = <<>>
    /\ total_price' = Decimal_0_00
    /\ daily_prices' = <<>>
    /\ current_date' = NoDate
    /\ calc_resp' = NoResp
    /\ calc_req' = NoResp
    /\ UNCHANGED <<store, list_resp>>
    /\ UNCHANGED outside

NextAvail ==
    \/ (list_resp = NoResp /\ \E b \in BookingRows : CreateBooking(b))
    \/ (list_resp = NoResp /\ \E q \in SUBSET Props :
            \E ci \in BookingDates \cup {NoParam}, co \in BookingDates \cup {NoParam} :
                List(q, ci, co))
    \/ ListReturn

SpecAvail == Init /\ [][NextAvail]_vars

ParamValues == StayDates \cup {NoParam, BadDate}

NextPrice ==
    \/ (pc = "idle" /\ \E r \in PricingRuleRows :
            \* the second property has rules of one multiplier only
            (r.property = 1 \/ r.price_multiplier = 150) /\ CreatePricingRule(r))
    \/ (pc = "idle" /\ \E p \in Props, ci \in ParamValues, co \in ParamValues :
            CalcPriceBegin(p, ci, co))
    \/ CalcPriceNight
    \/ CalcPriceFinish
    \/ CalcPriceReturn

SpecPrice == Init /\ [][NextPrice]_vars

\* calculate_price for a property that has bookings: the requests and the
\* rules as above, over bookings of the first property.
NextBooked ==
    \/ (pc = "idle" /\ \E b \in BookingRows :
            /\ b.property = 1
            /\ b.status \in {"confirmed", "pending"}
            /\ CreateBooking(b))
    \/ (pc = "idle" /\ \E r \in PricingRuleRows :
            /\ r.property = 1
            /\ r.start_date = 2
            /\ r.end_date = 2
            /\ CreatePricingRule(r))
    \/ (pc = "idle" /\ \E p \in Props, ci \in ParamValues, co \in ParamValues :
            CalcPriceBegin(p, ci, co))
    \/ CalcPriceNight
    \/ CalcPriceFinish
    \/ CalcPriceReturn

SpecBooked == Init /\ [][NextBooked]_vars

\* The requests for the first property over its rules of one multiplier,
\* overlapping rules and rules outside the stay included. A request that
\* has been accepted is served to its end: the handler runs on a worker
\* thread that is not cancelled.
NextLoop ==
    \/ (pc = "idle" /\ \E r \in PricingRuleRows :
            r.property = 1 /\ r.price_multiplier = 150 /\ CreatePricingRule(r))
    \/ (pc = "idle" /\ \E ci \in StayDates, co \in StayDates : CalcPriceBegin(1, ci, co))
    \/ CalcPriceNight
    \/ CalcPriceFinish
    \/ CalcPriceReturn

\* The step of CalcPriceFinish as the program counter shows it: the loop
\* condition is found false and the handler goes on to its return.
\* CalcPriceFinish is enabled exactly when this guard holds, and it is the
\* only action of NextLoop that moves pc from "loop" to "done".
LoopExit ==
    /\ pc = "loop"
    /\ ~LoopCond(current_date, check_out)
    /\ pc' = "done"

SpecLoop ==
    /\ Init
    /\ [][NextLoop]_vars
    /\ WF_vars(CalcPriceNight)
    /\ WF_pc(LoopExit)

\* ------------------------------------- views.py: get_queryset, list, nearby
\* Query parameters of the geographic requests: a number, or one of
\* absent (query_params.get gives None or the default), '' and a text that
\* float() rejects.
ParamAbsent == -1
ParamEmpty == -2
ParamText == -3
CoordParams == Coords \cup {ParamAbsent, ParamEmpty, ParamText}
RadiusParams == Radii \cup {ParamAbsent, ParamEmpty, ParamText}
BedroomParams == {ParamAbsent, 1, 2}

\* Truth value of a parameter in  if latitude and longitude  (None and ''
\* are falsy, every other string is truthy, '0' included).
Truthy(v) == v # ParamAbsent /\ v # ParamEmpty
\* Mutant of FloatOk: no conversion fails.
FloatOk_Always(v) == v = v

\* float(v) returns instead of raising ValueError or TypeError.
FloatOk(v) == v >= 0

\* request.query_params.get('radius', 10)
radius_of(radius_param) == IF radius_param = ParamAbsent THEN 10 ELSE radius_param

\* A queryset: the ids it selects, its ORDER BY, and the point that the
\* distance annotation is taken from.
\* Property.objects, ordered by Meta.ordering = ['-created_at'].
Property_objects(tbl) ==
    [ids |-> DOMAIN tbl, order_by |-> "-created_at", center |-> NoPoint]

\* location__dwithin=(user_location, D(km=radius))
dwithin(location, user_location, km) ==
    DistanceSq(location, user_location) <= km * km

\* .filter(location__dwithin=..).annotate(distance=..).order_by('distance')
within_by_distance(tbl, queryset, latitude, longitude, radius) ==
    LET user_location == Point(longitude, latitude)
    IN  [ids |-> {p \in queryset.ids : dwithin(tbl[p].location, user_location, radius)},
         order_by |-> "distance",
         center |-> user_location]

\* Mutant of get_queryset: a radius that is no number falls back to 10 km.
get_queryset_DefaultRadius(tbl, latitude, longitude, radius_param) ==
    LET queryset == Property_objects(tbl)
        radius == IF FloatOk(radius_of(radius_param)) THEN radius_of(radius_param) ELSE 10
    IN  IF Truthy(latitude) /\ Truthy(longitude)
        THEN IF FloatOk(longitude) /\ FloatOk(latitude)
             THEN within_by_distance(tbl, queryset, latitude, longitude, radius)
             ELSE queryset
        ELSE queryset

\* PropertyViewSet.get_queryset
get_queryset(tbl, latitude, longitude, radius_param) ==
    LET queryset == Property_objects(tbl)
        radius == radius_of(radius_param)
    IN  IF Truthy(latitude) /\ Truthy(longitude)
        THEN IF FloatOk(longitude) /\ FloatOk(latitude) /\ FloatOk(radius)
             THEN within_by_distance(tbl, queryset, latitude, longitude, radius)
             ELSE queryset      \* except (ValueError, TypeError): pass
        ELSE queryset

\* DjangoFilterBackend with PropertyFilter: bedrooms is an exact match;
\* latitude, longitude and radius are NumberFilters whose method returns the
\* queryset as it is.
DjangoFilterBackend(tbl, queryset, bedrooms) ==
    IF bedrooms = ParamAbsent THEN queryset
    ELSE [queryset EXCEPT !.ids = {p \in queryset.ids : tbl[p].bedrooms = bedrooms}]

\* A NumberFilter rejects a text that is no number: the request is answered 400.
NumberFilterValid(latitude, longitude, radius_param) ==
    ParamText \notin {latitude, longitude, radius_param}

\* Mutant of OrderingFilter: the default ordering of the view is not applied.
OrderingFilter_KeepOrder(queryset) == queryset

\* OrderingFilter with no ordering parameter: queryset.order_by(*view.ordering),
\* view.ordering = ['-created_at']; order_by replaces the ordering it finds.
OrderingFilter(queryset) == [queryset EXCEPT !.order_by = "-created_at"]

\* SearchFilter with no search parameter.
SearchFilter(queryset) == queryset

\* The column a queryset is sorted on, ascending.
OrderKey(tbl, queryset, p) ==
    IF queryset.order_by = "distance"
    THEN DistanceSq(tbl[p].location, queryset.center)
    ELSE 0 - tbl[p].created_at

\* The rows a queryset yields when it is evaluated: every selected id once,
\* in the order of the ORDER BY; rows with equal keys come in any order.
Evaluate(tbl, queryset) ==
    LET n == Cardinality(queryset.ids)
    IN  {s \in [1..n -> queryset.ids] :
            /\ \A i \in 1..n : \A j \in 1..n : i # j => s[i] # s[j]
            /\ \A i \in 1..n : \A j \in 1..n :
                   i < j => OrderKey(tbl, queryset, s[i]) <= OrderKey(tbl, queryset, s[j])}

\* GET /api/properties/?latitude=..&longitude=..&radius=..&bedrooms=..
list_geo(tbl, latitude, longitude, radius_param, bedrooms) ==
    IF ~NumberFilterValid(latitude, longitude, radius_param)
    THEN {Error400("Enter a number.")}
    ELSE LET queryset == SearchFilter(OrderingFilter(DjangoFilterBackend(tbl,
                             get_queryset(tbl, latitude, longitude, radius_param),
                             bedrooms)))
         IN  {[status |-> 200,
               count |-> Cardinality(queryset.ids),
               results |-> r] : r \in Evaluate(tbl, queryset)}

\* Mutant of nearby: the list filters are applied to the result.
nearby_Filtered(tbl, latitude, longitude, radius_param, bedrooms) ==
    IF ~Truthy(latitude) \/ ~Truthy(longitude)
    THEN {Error400("latitude and longitude are required")}
    ELSE IF ~(FloatOk(longitude) /\ FloatOk(latitude) /\ FloatOk(radius_of(radius_param)))
    THEN {Error400("Invalid parameters")}
    ELSE LET properties_qs ==
                 DjangoFilterBackend(tbl,
                     within_by_distance(tbl, Property_objects(tbl), latitude,
                                        longitude, radius_of(radius_param)),
                     bedrooms)
         IN  {[status |-> 200,
               count |-> Cardinality(properties_qs.ids),
               radius_km |-> radius_of(radius_param),
               center |-> [latitude |-> latitude, longitude |-> longitude],
               results |-> r] : r \in Evaluate(tbl, properties_qs)}

\* GET /api/properties/nearby/?latitude=..&longitude=..&radius=..
nearby(tbl, latitude, longitude, radius_param, bedrooms) ==
    IF ~Truthy(latitude) \/ ~Truthy(longitude)
    THEN {Error400("latitude and longitude are required")}
    ELSE IF ~(FloatOk(longitude) /\ FloatOk(latitude) /\ FloatOk(radius_of(radius_param)))
    THEN {Error400("Invalid parameters")}
    ELSE LET properties_qs ==
                 within_by_distance(tbl, Property_objects(tbl), latitude,
                                    longitude, radius_of(radius_param))
         IN  {[status |-> 200,
               count |-> Cardinality(properties_qs.ids),
               radius_km |-> radius_of(radius_param),
               center |-> [latitude |-> latitude, longitude |-> longitude],
               results |-> r] : r \in Evaluate(tbl, properties_qs)}

GeoRequest(op, latitude, longitude, radius_param, bedrooms) ==
    [op |-> op, latitude |-> latitude, longitude |-> longitude,
     radius |-> radius_param, bedrooms |-> bedrooms]

\* Property(..).save() and Property.objects.create(..): the row gets the next
\* id and the time of the insert; a row without location violates NOT NULL
\* and is not inserted.
CreateProperty(latitude, longitude) ==
    /\ geo_resp = NoResp
    /\ clock < MaxProperties
    /\ LET id == clock + 1
           row == PropertyRow(id, latitude, longitude, clock + 1)
       IN  /\ row.location # NoPoint
           /\ properties' = [p \in DOMAIN properties \cup {id} |->
                                IF p = id THEN row ELSE properties[p]]
    /\ clock' = clock + 1
    /\ UNCHANGED <<store, list_resp, calc_vars, geo_vars, detail_vars, workers, command_vars>>
    /\ UNCHANGED <<property_amenities, property_images, delete_result>>

ListGeo(latitude, longitude, radius_param, bedrooms) ==
    /\ geo_resp = NoResp
    /\ geo_req' = GeoRequest("list", latitude, longitude, radius_param, bedrooms)
    /\ geo_resp' \in list_geo(properties, latitude, longitude, radius_param, bedrooms)
    /\ view_queryset' = get_queryset(properties, latitude, longitude, radius_param)
    /\ UNCHANGED <<store, list_resp, calc_vars, catalog, detail_vars, workers, command_vars>>

Nearby(latitude, longitude, radius_param, bedrooms) ==
    /\ geo_resp = NoResp
    /\ geo_req' = GeoRequest("nearby", latitude, longitude, radius_param, bedrooms)
    /\ geo_resp' \in nearby(properties, latitude, longitude, radius_param, bedrooms)
    /\ view_queryset' = NoResp
    /\ UNCHANGED <<store, list_resp, calc_vars, catalog, detail_vars, workers, command_vars>>

\* The response is handed to the client.
GeoReturn ==
    /\ geo_resp # NoResp
    /\ geo_req' = NoResp
    /\ geo_resp' = NoResp
    /\ view_queryset' = NoResp
    /\ UNCHANGED <<store, list_resp, calc_vars, catalog, detail_vars, workers, command_vars>>

\* The catalogue starts empty here and is filled by CreateProperty.
InitGeo ==
    /\ bookings = EmptyBag
    /\ pricing_rules_table = EmptyBag
    /\ base_price_per_night = [p \in Props |-> Numeric2(BasePriceOf(p))]
    /\ list_resp = NoResp
    /\ CalcIdle
    /\ properties = <<>>
    /\ clock = 0
    /\ property_amenities = {}
    /\ property_images = EmptyBag
    /\ delete_result = NoResp
    /\ geo_req = NoResp
    /\ geo_resp = NoResp
    /\ view_queryset = NoResp
    /\ detail_req = NoResp
    /\ detail_resp = NoResp
    /\ workers = [w \in Procs |-> WorkerIdle]
    /\ sample_data_db = NoSource
    /\ command = NoResp

NextGeo ==
    \/ (geo_resp = NoResp /\ \E la \in Coords, lo \in Coords : CreateProperty(la, lo))
    \/ (geo_resp = NoResp /\ \E la \in CoordParams, lo \in CoordParams :
            \E ra \in RadiusParams, be \in BedroomParams : ListGeo(la, lo, ra, be))
    \/ (geo_resp = NoResp /\ \E la \in CoordParams, lo \in CoordParams :
            \E ra \in RadiusParams, be \in BedroomParams : Nearby(la, lo, ra, be))
    \/ GeoReturn

SpecGeo == InitGeo /\ [][NextGeo]_vars

\* ===================================================== availability filter
\* The list request being served carried both dates.
ListedWithDates ==
    /\ list_resp # NoResp
    /\ list_resp.check_in # NoParam
    /\ list_resp.check_out # NoParam

\* The case inside the contract of the specification: the request has
\* check_in < check_out.  C1, C2 and C3 are stated for this case, where
\* nothing is left to the caller.
ListedInContract ==
    /\ ListedWithDates
    /\ list_resp.check_in < list_resp.check_out

\* The overlap test of the specification, on one booking.
Overlaps(b, req_in, req_out) == b.check_in <= req_out /\ b.check_out >= req_in

\* is_available of the specification: no confirmed booking of the property
\* overlaps the request.
is_available(p, req_in, req_out) ==
    ~\E b \in BookingsOf(bookings, p) :
        b.status = "confirmed" /\ Overlaps(b, req_in, req_out)

\* C1: a property of the queryset is removed from the result if and only if
\* one of its confirmed bookings b has b.check_in <= requested check_out and
\* b.check_out >= requested check_in (inclusive at both ends).
C1_RemovedIffConfirmedOverlap ==
    ListedInContract =>
        \A p \in list_resp.queryset :
            (p \notin list_resp.results)
                <=> \E b \in BookingsOf(bookings, p) :
                        /\ b.status = "confirmed"
                        /\ b.check_in <= list_resp.check_out
                        /\ b.check_out >= list_resp.check_in

\* C2: only confirmed bookings block: a property that has bookings
\* overlapping the request, none of them confirmed, stays in the result,
\* whatever other bookings it has.
C2_OnlyConfirmedBlocks ==
    ListedInContract =>
        \A p \in list_resp.queryset :
            LET over == {b \in BookingsOf(bookings, p) :
                            Overlaps(b, list_resp.check_in, list_resp.check_out)}
            IN  (over # {} /\ \A b \in over : b.status # "confirmed")
                    => p \in list_resp.results

\* C3: the result over a collection is exactly the set of its properties
\* that are available on their own bookings.
C3_ResultIsAvailableSet ==
    ListedInContract =>
        list_resp.results =
            {p \in list_resp.queryset :
                is_available(p, list_resp.check_in, list_resp.check_out)}

\* What does hold of the code for C3's second half: a property is kept or
\* dropped on its own bookings alone, whatever else is in the collection or
\* in the table.
OwnBookings(p) == [b \in BookingsOf(bookings, p) |-> CopiesIn(b, bookings)]

FilterIsPerProperty ==
    ListedWithDates =>
        \A p \in list_resp.queryset :
            (p \in list_resp.results)
                <=> p \in PropertyFilter_qs(OwnBookings(p), {p},
                                            list_resp.check_in, list_resp.check_out)

\* ========================================================= calculate_price
\* The request being answered had two dates that parsed.
DatesParsed == pc = "done" /\ check_in # NoDate /\ check_out # NoDate

Ok200 == pc = "done" /\ calc_resp.status = 200

\* A decimal value in ten-thousandths.
DecVal4(d) == d.coef * Pow10(4 + d.exp)

RECURSIVE SumFinal(_)
SumFinal(entries) ==
    IF entries = <<>> THEN 0
    ELSE StrVal4(entries[1].final_price) + SumFinal(Tail(entries))

\* The rules of the property being priced that cover the night d.
OwnRules == RuleRowsOf(pricing_rules_table, property_obj)
CoveringRules(d) == {r \in OwnRules : r.start_date <= d /\ d <= r.end_date}

\* The request that calculate_price is answering named two dates.
RequestedDates ==
    /\ pc = "done"
    /\ calc_req.check_in \in StayDates
    /\ calc_req.check_out \in StayDates

\* C4: a request with check_out > check_in is answered with nights equal to
\* check_out - check_in and one breakdown entry for each date from check_in
\* to the day before check_out, in order; check_out has no entry.
C4_NightsAndBreakdown ==
    (RequestedDates /\ calc_req.check_out > calc_req.check_in) =>
        /\ calc_resp.status = 200
        /\ calc_resp.nights = calc_req.check_out - calc_req.check_in
        /\ Len(calc_resp.daily_breakdown) = calc_req.check_out - calc_req.check_in
        /\ \A i \in 1..Len(calc_resp.daily_breakdown) :
               calc_resp.daily_breakdown[i].date = calc_req.check_in + i - 1

\* What the code does meet: once get_object() has found the property, the
\* nights and the breakdown are those of C4.
NightsAndBreakdownWhenFound ==
    (DatesParsed /\ check_out > check_in) =>
        /\ calc_resp.status = 200
        /\ calc_resp.nights = check_out - check_in
        /\ Len(calc_resp.daily_breakdown) = check_out - check_in
        /\ \A i \in 1..Len(calc_resp.daily_breakdown) :
               calc_resp.daily_breakdown[i].date = check_in + i - 1
        /\ \A i \in 1..Len(calc_resp.daily_breakdown) :
               calc_resp.daily_breakdown[i].date # check_out

C4_Witness ==
    /\ Ok200
    /\ calc_resp.nights = 3
    /\ Len(calc_resp.daily_breakdown) = 3

\* C5: after every night processed the running total equals the sum of the
\* final_price of the entries appended so far, and the total_price of the
\* response equals the sum of the final_price of its breakdown.
C5_TotalIsSum ==
    /\ pc = "loop" => DecVal4(total_price) = SumFinal(daily_prices)
    /\ Ok200 =>
          /\ StrExact4(calc_resp.total_price)
          /\ \A i \in 1..Len(calc_resp.daily_breakdown) :
                 StrExact4(calc_resp.daily_breakdown[i].final_price)
          /\ StrVal4(calc_resp.total_price) = SumFinal(calc_resp.daily_breakdown)

C5_Witness ==
    /\ Ok200
    /\ Len(calc_resp.daily_breakdown) >= 2
    /\ calc_resp.daily_breakdown[1].final_price
           # calc_resp.daily_breakdown[2].final_price

\* C6: every night is priced by the first rule, in iteration order, that
\* covers it; rules after it in the sequence have no influence.
C6_FirstMatchWins ==
    pc \in {"loop", "done"} =>
        \A n \in 1..Len(daily_prices) :
            LET d == daily_prices[n].date
                hits == {i \in 1..Len(pricing_rules) :
                            /\ pricing_rules[i].start_date <= d
                            /\ d <= pricing_rules[i].end_date}
            IN  hits # {} =>
                    LET first == CHOOSE i \in hits : \A j \in hits : i <= j
                    IN  /\ daily_prices[n].multiplier
                              = DecStr(Numeric2(pricing_rules[first].price_multiplier))
                        /\ daily_prices[n].pricing_rule = Seasonal(pricing_rules[first])
                        /\ StrVal4(daily_prices[n].final_price)
                              = base_price_per_night[property_obj].coef
                                  * pricing_rules[first].price_multiplier

\* A night covered by two rules with different multipliers.
C6_Witness ==
    /\ Ok200
    /\ Len(pricing_rules) = 2
    /\ pricing_rules[1].price_multiplier # pricing_rules[2].price_multiplier
    /\ \E n \in 1..Len(daily_prices) :
           /\ pricing_rules[1].start_date <= daily_prices[n].date
           /\ daily_prices[n].date <= pricing_rules[1].end_date
           /\ pricing_rules[2].start_date <= daily_prices[n].date
           /\ daily_prices[n].date <= pricing_rules[2].end_date

\* C7: a night that no rule of the property covers is priced at the base
\* price, multiplier 1.0, label "Base Rate", and the request succeeds; a
\* night is labelled "Base Rate" only if no rule covers it; with no rules
\* the total is nights times the base price.
C7_BaseRateFallback ==
    (DatesParsed /\ check_out > check_in) =>
        /\ calc_resp.status = 200
        /\ \A n \in 1..Len(calc_resp.daily_breakdown) :
               LET e == calc_resp.daily_breakdown[n]
               IN  /\ CoveringRules(e.date) = {} =>
                          /\ e.multiplier = [int |-> 1, frac |-> <<0>>]
                          /\ StrVal4(e.final_price) = StrVal4(e.base_price)
                          /\ StrVal4(e.base_price)
                                 = DecVal4(base_price_per_night[property_obj])
                          /\ e.pricing_rule = BaseRate
                   /\ e.pricing_rule.name = "Base Rate" => CoveringRules(e.date) = {}
        /\ OwnRules = {} =>
               StrVal4(calc_resp.total_price)
                   = calc_resp.nights * DecVal4(base_price_per_night[property_obj])

\* A stay with a night under a rule and a night under none.
C7_Witness ==
    /\ Ok200
    /\ \E n \in 1..Len(calc_resp.daily_breakdown) :
           calc_resp.daily_breakdown[n].pricing_rule = BaseRate
    /\ \E n \in 1..Len(calc_resp.daily_breakdown) :
           calc_resp.daily_breakdown[n].pricing_rule.name = "Seasonal"

\* C8: a rule applies on its start_date and on its end_date and on no night
\* outside [start_date, end_date]; a rule with start_date = end_date =
\* check_in applies to exactly one night; base 100.00 with the one rule
\* {2..3, 1.5} prices the stay 1 to 4 at 100, 150, 150, total 400.
SeasonalNights == {n \in 1..Len(calc_resp.daily_breakdown) :
                      calc_resp.daily_breakdown[n].pricing_rule.name = "Seasonal"}

ScenarioB ==
    /\ Ok200
    /\ base_price_per_night[property_obj] = Numeric2(10000)
    /\ OwnRules = {[property |-> property_obj, start_date |-> 2, end_date |-> 3,
                    price_multiplier |-> 150]}
    /\ check_in = 1
    /\ check_out = 4

C8_InclusiveInterval ==
    Ok200 =>
        /\ \A n \in 1..Len(calc_resp.daily_breakdown) :
               LET e == calc_resp.daily_breakdown[n]
               IN  /\ e.pricing_rule.name = "Seasonal" =>
                          /\ e.pricing_rule.start_date <= e.date
                          /\ e.date <= e.pricing_rule.end_date
                   /\ \A r \in OwnRules :
                          /\ (r.start_date <= r.end_date
                                /\ e.date \in {r.start_date, r.end_date})
                               => e.pricing_rule.name = "Seasonal"
                          /\ (OwnRules = {r} /\ (e.date < r.start_date \/ e.date > r.end_date))
                               => e.pricing_rule = BaseRate
                          /\ (OwnRules = {r} /\ r.start_date <= e.date /\ e.date <= r.end_date)
                               => /\ e.pricing_rule = Seasonal(r)
                                  /\ StrVal4(e.final_price)
                                       = base_price_per_night[property_obj].coef
                                           * r.price_multiplier
        /\ \A r \in OwnRules :
               (OwnRules = {r} /\ r.start_date = check_in /\ r.end_date = check_in)
                   => SeasonalNights = {1}
        /\ ScenarioB =>
               /\ Len(calc_resp.daily_breakdown) = 3
               /\ StrVal4(calc_resp.daily_breakdown[1].final_price) = 1000000
               /\ StrVal4(calc_resp.daily_breakdown[2].final_price) = 1500000
               /\ StrVal4(calc_resp.daily_breakdown[3].final_price) = 1500000
               /\ StrVal4(calc_resp.total_price) = 4000000

C8_Witness == ScenarioB

\* C9: a request whose dates have check_out <= check_in is answered 400
\* 'check_out must be after check_in' with nothing else in the response,
\* and the loop is never entered for it.
C9_InvalidRange ==
    /\ pc = "loop" => check_out > check_in
    /\ (RequestedDates /\ calc_req.check_out <= calc_req.check_in) =>
          /\ calc_resp = Error400("check_out must be after check_in")
          /\ daily_prices = <<>>

\* What the code does meet: once get_object() has found the property, a
\* range with check_out <= check_in is refused as C9 says.
InvalidRangeWhenFound ==
    /\ pc = "loop" => check_out > check_in
    /\ (DatesParsed /\ check_out <= check_in) =>
          /\ calc_resp = Error400("check_out must be after check_in")
          /\ daily_prices = <<>>
          /\ total_price = Decimal_0_00
          /\ current_date = NoDate

C9_Witness ==
    /\ DatesParsed
    /\ check_out = check_in
    /\ calc_resp.status = 400

\* C10: in every successful response nights > 0 and
\* average_price_per_night is total_price / nights: to four places it is
\* the quotient of the total in ten-thousandths by nights, and it has no
\* further digits exactly when the division leaves no remainder; the
\* division is never reached with nights = 0.
C10_AverageIsTotalByNights ==
    /\ pc = "loop" => nights > 0
    /\ Ok200 =>
          /\ calc_resp.nights > 0
          /\ StrVal4(calc_resp.average_price_per_night)
                 = StrVal4(calc_resp.total_price) \div calc_resp.nights
          /\ StrExact4(calc_resp.average_price_per_night)
                 <=> StrVal4(calc_resp.total_price) % calc_resp.nights = 0
          /\ (calc_resp.nights = 1
                 => calc_resp.average_price_per_night = calc_resp.total_price)

\* A total that three nights do not divide.
C10_Witness ==
    /\ Ok200
    /\ calc_resp.nights = 3
    /\ StrVal4(calc_resp.total_price) % 3 # 0

\* C16: for every night of the breakdown final_price is base_price_per_night
\* times the applied multiplier exactly, nothing rounded or cut off (the
\* price in ten-thousandths is base in hundredths times multiplier in
\* hundredths), and the base_price of every night is the stored
\* base_price_per_night of the property.
C16_ExactProduct ==
    Ok200 =>
        \A n \in 1..Len(calc_resp.daily_breakdown) :
            LET e == calc_resp.daily_breakdown[n]
                stored == base_price_per_night[property_obj]
            IN  /\ e.base_price = DecStr(stored)
                /\ e.base_price = calc_resp.base_price_per_night
                /\ StrVal4(e.base_price) = stored.coef * 100
                /\ StrExact4(e.final_price)
                /\ StrVal4(e.final_price) * 100
                       = stored.coef * StrVal4(e.multiplier)

\* A night whose exact price has a digit beyond the cents: 25.99 * 1.50.
C16_Witness ==
    /\ Ok200
    /\ \E n \in 1..Len(calc_resp.daily_breakdown) :
           /\ StrVal4(calc_resp.daily_breakdown[n].final_price) % 100 # 0
           /\ calc_resp.daily_breakdown[n].pricing_rule.name = "Seasonal"

\* C17: the sequence the pricing loop iterates is the rules of the property
\* being priced, each as often as it is stored, in ascending start_date; a
\* night that several rules cover is priced by a covering rule with the
\* earliest start_date among them; a rule of another property is never in
\* the sequence and never prices a night.
C17_OwnRulesByStartDate ==
    pc \in {"loop", "done"} /\ (pc = "done" => calc_resp.status = 200) =>
        /\ \A i \in 1..Len(pricing_rules) :
               pricing_rules[i].property = property_obj
        /\ \A r \in OwnRules :
               Cardinality({i \in 1..Len(pricing_rules) : pricing_rules[i] = r})
                   = CopiesIn(r, pricing_rules_table)
        /\ \A i \in 1..Len(pricing_rules) : \A j \in 1..Len(pricing_rules) :
               i < j => pricing_rules[i].start_date <= pricing_rules[j].start_date
        /\ \A n \in 1..Len(daily_prices) :
               LET e == daily_prices[n]
                   cover == CoveringRules(e.date)
               IN  IF cover = {}
                   THEN e.pricing_rule = BaseRate
                   ELSE \E r \in cover :
                            /\ \A q \in cover : r.start_date <= q.start_date
                            /\ e.pricing_rule = Seasonal(r)
                            /\ e.multiplier = DecStr(Numeric2(r.price_multiplier))
                            /\ StrVal4(e.final_price)
                                   = base_price_per_night[property_obj].coef
                                       * r.price_multiplier

\* A night covered by two rules of the property that start on different days
\* and carry different multipliers.
C17_Witness ==
    /\ Ok200
    /\ \E n \in 1..Len(calc_resp.daily_breakdown) :
           \E r1 \in CoveringRules(calc_resp.daily_breakdown[n].date) :
               \E r2 \in CoveringRules(calc_resp.daily_breakdown[n].date) :
                   /\ r1.start_date < r2.start_date
                   /\ r1.price_multiplier # r2.price_multiplier

\* -------------------------------- models.py: the children of a Property
PropertyIds == 1..MaxProperties
Amenities == {"WiFi"}
AmenityRows == [property : PropertyIds, amenity : Amenities]
ImageRows == [property : PropertyIds, is_primary : {TRUE}]

\* The status column of a source database: the four choices and a text
\* that is none of them.
SourceStatus == BOOKING_STATUS \cup {"no_show"}
SourceBookingRows ==
    [property : Props, check_in : {1}, check_out : {1}, status : SourceStatus]

\* The Property rows, the child rows of the four tables.
database == <<store, properties, property_amenities, property_images>>

ChildRows ==
    BagCardinality(bookings) + BagCardinality(pricing_rules_table)
        + Cardinality(property_amenities) + BagCardinality(property_images)

\* The rows of a table (a bag) that a property owns, and the table without them.
OwnedBag(tbl, p) ==
    LET rows == {r \in BagToSet(tbl) : r.property = p}
    IN  [r \in rows |-> CopiesIn(r, tbl)]

\* Mutant of WithoutOwned: the rows of the deleted property stay.
WithoutOwned_Keep(tbl, p) == tbl

\* on_delete=models.CASCADE: the rows whose foreign key is p go with p.
WithoutOwned(tbl, p) ==
    LET rows == {r \in BagToSet(tbl) : r.property # p}
    IN  [r \in rows |-> CopiesIn(r, tbl)]

\* PropertyAmenity(..) / PropertyAmenity.objects.create(..): the foreign key
\* and unique_together = ['property', 'amenity'] are enforced by the database.
CreateAmenity(a) ==
    /\ a.property \in DOMAIN properties
    /\ a \notin property_amenities
    /\ property_amenities' = property_amenities \cup {a}
    /\ UNCHANGED <<store, list_resp, calc_vars, geo_vars, detail_vars, workers, command_vars>>
    /\ UNCHANGED <<properties, clock, property_images, delete_result>>

CreateImage(i) ==
    /\ i.property \in DOMAIN properties
    /\ property_images' = property_images (+) SetToBag({i})
    /\ UNCHANGED <<store, list_resp, calc_vars, geo_vars, detail_vars, workers, command_vars>>
    /\ UNCHANGED <<properties, clock, property_amenities, delete_result>>

\* import_bookings and load_sample_data, one source row: the row is stored
\* with the status text of the source; a row of no stored property is
\* skipped (import_data) or refused by the foreign key (load_sample_data).
ImportBooking(row) ==
    /\ BagCardinality(bookings) < MaxBookings
    /\ row.property \in DOMAIN properties
    /\ bookings' = bookings (+) SetToBag({[property |-> row.property,
                                           check_in |-> row.check_in,
                                           check_out |-> row.check_out,
                                           status |-> row.status]})
    /\ UNCHANGED <<pricing_rules_table, base_price_per_night, list_resp, calc_vars>>
    /\ UNCHANGED outside

\* Property.delete() (admin, import_data --clear): the collector deletes the
\* rows of the four child tables that point to the property, then the
\* property, and returns how many rows went.
DeleteProperty(p) ==
    /\ p \in DOMAIN properties
    /\ properties' = [q \in DOMAIN properties \ {p} |-> properties[q]]
    /\ bookings' = WithoutOwned(bookings, p)
    /\ pricing_rules_table' = WithoutOwned(pricing_rules_table, p)
    /\ property_images' = WithoutOwned(property_images, p)
    /\ property_amenities' = {a \in property_amenities : a.property # p}
    /\ delete_result' =
           [property |-> p,
            deleted |-> 1 + BagCardinality(OwnedBag(bookings, p))
                          + BagCardinality(OwnedBag(pricing_rules_table, p))
                          + BagCardinality(OwnedBag(property_images, p))
                          + Cardinality({a \in property_amenities : a.property = p})]
    /\ UNCHANGED <<base_price_per_night, list_resp, calc_vars, clock, geo_vars,
                   detail_vars, workers, command_vars>>

\* The writes of the management commands and of the admin site, on an
\* initially empty database.
NextStore ==
    \/ CreateProperty(6, 6)
    \/ \E p \in PropertyIds : DeleteProperty(p)
    \/ (ChildRows < MaxChildRows /\ \E a \in AmenityRows : CreateAmenity(a))
    \/ (ChildRows < MaxChildRows /\ \E i \in ImageRows : CreateImage(i))
    \/ (ChildRows < MaxChildRows /\ \E r \in PricingRuleRows :
            r.start_date = 1 /\ r.end_date = 1 /\ r.price_multiplier = 150
                /\ CreatePricingRule(r))
    \/ (ChildRows < MaxChildRows /\ \E b \in BookingRows :
            b.check_in = 1 /\ b.check_out = 1 /\ CreateBooking(b))
    \/ (ChildRows < MaxChildRows /\ \E row \in SourceBookingRows : ImportBooking(row))

SpecStore == InitGeo /\ [][NextStore]_vars

\* The change form of the admin site (or any caller that sets the fields of
\* a stored Property and calls save()): latitude and longitude are replaced
\* and save() derives location from them when both are truthy.
SaveProperty(p, latitude, longitude) ==
    /\ p \in DOMAIN properties
    /\ properties' = [properties EXCEPT
           ![p] = [@ EXCEPT !.latitude = latitude,
                            !.longitude = longitude,
                            !.location = save_location(latitude, longitude, @)]]
    /\ UNCHANGED <<store, list_resp, calc_vars, geo_vars, detail_vars, workers, command_vars>>
    /\ UNCHANGED <<clock, property_amenities, property_images, delete_result>>

\* Properties are added, edited and deleted.
NextSave ==
    \/ \E la \in Coords, lo \in Coords : CreateProperty(la, lo)
    \/ \E p \in PropertyIds : \E la \in Coords, lo \in Coords : SaveProperty(p, la, lo)
    \/ \E p \in PropertyIds : DeleteProperty(p)

SpecSave == InitGeo /\ [][NextSave]_vars

\* ------------------------- management commands: load_sample_data, import_data
\* Rows of the five tables of sample-data.db. Property ids 1 and 2 are used
\* by its properties table; a child row with property_id 3 points to no
\* property of the file. Latitude 0 is a property on the equator.
SrcProperty(id, latitude) == [id |-> id, latitude |-> latitude, longitude |-> 6]
SrcAmenity(p) == [property_id |-> p, amenity |-> "WiFi"]
SrcImage(p) == [property_id |-> p, is_primary |-> TRUE]
SrcRule(p) ==
    [property_id |-> p, start_date |-> 1, end_date |-> 1, price_multiplier |-> 150]
SrcBooking(p, status) ==
    [property_id |-> p, check_in |-> 1, check_out |-> 1, status |-> status]

SampleDatabases ==
    [properties : {<<>>,
                   <<SrcProperty(1, 6)>>,
                   <<SrcProperty(2, 6)>>,
                   <<SrcProperty(1, 0)>>,
                   <<SrcProperty(1, 6), SrcProperty(2, 6)>>,
                   <<SrcProperty(1, 6), SrcProperty(2, 0)>>},
     amenities : {<<>>,
                  <<SrcAmenity(1)>>,
                  <<SrcAmenity(3)>>,
                  <<SrcAmenity(1), SrcAmenity(1)>>,
                  <<SrcAmenity(3), SrcAmenity(2)>>},
     images : {<<>>, <<SrcImage(1)>>, <<SrcImage(3)>>},
     pricing_rules : {<<>>, <<SrcRule(2)>>, <<SrcRule(3)>>},
     bookings : {<<>>,
                 <<SrcBooking(1, "confirmed")>>,
                 <<SrcBooking(3, "confirmed")>>,
                 <<SrcBooking(1, ""), SrcBooking(2, "no_show")>>}]

\* How many times the commands are run in one behaviour.
MaxRuns == 2

\* The tables as one value.
Tables ==
    [properties |-> properties,
     clock |-> clock,
     property_amenities |-> property_amenities,
     property_images |-> property_images,
     pricing_rules_table |-> pricing_rules_table,
     bookings |-> bookings]

BagOfSeq(rows) ==
    LET vals == {rows[i] : i \in 1..Len(rows)}
    IN  [v \in vals |-> Cardinality({i \in 1..Len(rows) : rows[i] = v})]

WithProperty(tbl, id, row) ==
    [p \in DOMAIN tbl \cup {id} |-> IF p = id THEN row ELSE tbl[p]]

\* Mutant of Property_objects_exists: the command never finds data.
Property_objects_exists_Never(db) == FALSE

\* Property.objects.exists()
Property_objects_exists(db) == DOMAIN db.properties # {}

\* load_sample_data: Property.objects.create(id=row['id'], ..) row by row.
\* save() builds location; an insert that the database refuses (no
\* location, key already there) raises and ends the command, the rows
\* stored so far stay.
RECURSIVE load_properties(_, _, _)
load_properties(db, rows, i) ==
    IF i > Len(rows) THEN [db |-> db, ok |-> TRUE]
    ELSE LET row == PropertyRow(rows[i].id, rows[i].latitude, rows[i].longitude,
                                db.clock + 1)
         IN  IF row.location = NoPoint \/ rows[i].id \in DOMAIN db.properties
             THEN [db |-> db, ok |-> FALSE]
             ELSE load_properties(
                      [db EXCEPT !.properties = WithProperty(@, rows[i].id, row),
                                 !.clock = @ + 1],
                      rows, i + 1)

\* load_sample_data: <Model>.objects.create(property_id=row['property_id'], ..)
\* for one row of a child table; the foreign key and unique_together are
\* checked by the database; an empty booking status becomes 'confirmed'.
create_child(db, table, row) ==
    IF row.property_id \notin DOMAIN db.properties
    THEN [db |-> db, ok |-> FALSE]
    ELSE CASE table = "property_images" ->
                [db |-> [db EXCEPT !.property_images = @ (+) SetToBag({
                            [property |-> row.property_id,
                             is_primary |-> row.is_primary]})],
                 ok |-> TRUE]
           [] table = "property_amenities" ->
                LET a == [property |-> row.property_id, amenity |-> row.amenity]
                IN  IF a \in db.property_amenities
                    THEN [db |-> db, ok |-> FALSE]
                    ELSE [db |-> [db EXCEPT !.property_amenities = @ \cup {a}],
                          ok |-> TRUE]
           [] table = "pricing_rules" ->
                [db |-> [db EXCEPT !.pricing_rules_table = @ (+) SetToBag({
                            [property |-> row.property_id,
                             start_date |-> row.start_date,
                             end_date |-> row.end_date,
                             price_multiplier |-> row.price_multiplier]})],
                 ok |-> TRUE]
           [] table = "bookings" ->
                [db |-> [db EXCEPT !.bookings = @ (+) SetToBag({
                            [property |-> row.property_id,
                             check_in |-> row.check_in,
                             check_out |-> row.check_out,
                             status |-> IF row.status # "" THEN row.status
                                        ELSE "confirmed"]})],
                 ok |-> TRUE]

RECURSIVE load_rows(_, _, _, _)
load_rows(db, table, rows, i) ==
    IF i > Len(rows) THEN [db |-> db, ok |-> TRUE]
    ELSE LET r == create_child(db, table, rows[i])
         IN  IF r.ok THEN load_rows(r.db, table, rows, i + 1) ELSE r

\* Command.handle of load_sample_data: nothing is done when a Property
\* exists; otherwise properties, images, amenities, pricing rules and
\* bookings are created in this order until an insert raises.
load_sample_data(db, src) ==
    IF Property_objects_exists(db)
    THEN [db |-> db, result |-> "skipped", property_map |-> <<>>]
    ELSE LET p == load_properties(db, src.properties, 1)
             i == IF p.ok THEN load_rows(p.db, "property_images", src.images, 1) ELSE p
             a == IF i.ok THEN load_rows(i.db, "property_amenities", src.amenities, 1)
                  ELSE i
             r == IF a.ok THEN load_rows(a.db, "pricing_rules", src.pricing_rules, 1)
                  ELSE a
             b == IF r.ok THEN load_rows(r.db, "bookings", src.bookings, 1) ELSE r
         IN  [db |-> b.db,
              result |-> IF b.ok THEN "done" ELSE "error",
              property_map |-> <<>>]

\* Mutant of clear_tables: --clear deletes nothing.
clear_tables_Nothing(db) == db

\* import_data --clear: <Model>.objects.all().delete() on the five tables.
clear_tables(db) ==
    [db EXCEPT !.bookings = EmptyBag,
               !.pricing_rules_table = EmptyBag,
               !.property_images = EmptyBag,
               !.property_amenities = {},
               !.properties = <<>>]

\* import_properties: Property(..).save() row by row with an id from the
\* database; property_map maps the id of the source row to the new row.
RECURSIVE import_properties(_, _, _, _)
import_properties(db, rows, i, property_map) ==
    IF i > Len(rows) THEN [db |-> db, ok |-> TRUE, property_map |-> property_map]
    ELSE LET id == db.clock + 1
             row == PropertyRow(id, rows[i].latitude, rows[i].longitude, db.clock + 1)
         IN  IF row.location = NoPoint \/ id \in DOMAIN db.properties
             THEN [db |-> db, ok |-> FALSE, property_map |-> <<>>]
             ELSE import_properties(
                      [db EXCEPT !.properties = WithProperty(@, id, row),
                                 !.clock = @ + 1],
                      rows, i + 1,
                      [k \in DOMAIN property_map \cup {rows[i].id} |->
                          IF k = rows[i].id THEN id ELSE property_map[k]])

\* The rows of a child table whose property_id is in property_map (if
\* property_obj:), each with its new property.
Mapped(rows, property_map) ==
    LET known(r) == r.property_id \in DOMAIN property_map
        kept == SelectSeq(rows, known)
    IN  [i \in 1..Len(kept) |->
            [kept[i] EXCEPT !.property_id = property_map[kept[i].property_id]]]

\* import_amenities: one bulk_create of the mapped rows; unique_together
\* refuses the whole statement.
import_amenities(db, rows, property_map) ==
    LET objs == Mapped(rows, property_map)
        new == {[property |-> objs[i].property_id, amenity |-> objs[i].amenity] :
                   i \in 1..Len(objs)}
    IN  IF \/ Cardinality(new) # Len(objs)
           \/ new \cap db.property_amenities # {}
        THEN [db |-> db, ok |-> FALSE]
        ELSE [db |-> [db EXCEPT !.property_amenities = @ \cup new], ok |-> TRUE]

import_images(db, rows, property_map) ==
    LET objs == Mapped(rows, property_map)
    IN  [db EXCEPT !.property_images = @ (+) BagOfSeq(
            [i \in 1..Len(objs) |-> [property |-> objs[i].property_id,
                                     is_primary |-> objs[i].is_primary]])]

import_pricing_rules(db, rows, property_map) ==
    LET objs == Mapped(rows, property_map)
    IN  [db EXCEPT !.pricing_rules_table = @ (+) BagOfSeq(
            [i \in 1..Len(objs) |-> [property |-> objs[i].property_id,
                                     start_date |-> objs[i].start_date,
                                     end_date |-> objs[i].end_date,
                                     price_multiplier |-> objs[i].price_multiplier]])]

\* import_bookings: status=row['status'] as it is in the file.
import_bookings(db, rows, property_map) ==
    LET objs == Mapped(rows, property_map)
    IN  [db EXCEPT !.bookings = @ (+) BagOfSeq(
            [i \in 1..Len(objs) |-> [property |-> objs[i].property_id,
                                     check_in |-> objs[i].check_in,
                                     check_out |-> objs[i].check_out,
                                     status |-> objs[i].status]])]

\* Command.handle of import_data: the tables are cleared when --clear is
\* given, then the five tables are imported in order; an exception ends the
\* import, is caught and reported, and what was stored before it stays.
import_data(db, src, clear) ==
    LET start == IF clear THEN clear_tables(db) ELSE db
        p == import_properties(start, src.properties, 1, <<>>)
        a == import_amenities(p.db, src.amenities, p.property_map)
    IN  IF ~p.ok
        THEN [db |-> p.db, result |-> "error", property_map |-> <<>>]
        ELSE IF ~a.ok
        THEN [db |-> a.db, result |-> "error", property_map |-> p.property_map]
        ELSE [db |-> import_bookings(
                         import_pricing_rules(
                             import_images(a.db, src.images, p.property_map),
                             src.pricing_rules, p.property_map),
                         src.bookings, p.property_map),
              result |-> "done",
              property_map |-> p.property_map]

\* The number of runs so far.
Runs == IF command = NoResp THEN 0 ELSE command.run

\* A run of a command: the tables become what the command leaves, and the
\* run is noted with the time it started at, the number of Property rows it
\* found, and whether it repeats the run before it on untouched tables.
RunCommand(name, clear, run) ==
    /\ Runs < MaxRuns
    /\ properties' = run.db.properties
    /\ clock' = run.db.clock
    /\ property_amenities' = run.db.property_amenities
    /\ property_images' = run.db.property_images
    /\ pricing_rules_table' = run.db.pricing_rules_table
    /\ bookings' = run.db.bookings
    /\ command' = [name |-> name,
                   clear |-> clear,
                   run |-> Runs + 1,
                   started |-> clock,
                   found |-> Cardinality(DOMAIN properties),
                   repeat |-> IF command = NoResp THEN FALSE
                              ELSE command.name = name /\ command.after = Tables,
                   result |-> run.result,
                   property_map |-> run.property_map,
                   after |-> run.db]
    /\ UNCHANGED <<base_price_per_night, list_resp, calc_vars, delete_result,
                   geo_vars, detail_vars, workers, sample_data_db>>

\* python manage.py load_sample_data
LoadSampleData ==
    RunCommand("load_sample_data", FALSE, load_sample_data(Tables, sample_data_db))

\* python manage.py import_data [--clear]
ImportData(clear) ==
    RunCommand("import_data", clear, import_data(Tables, sample_data_db, clear))

\* The commands are run on the file that is there; properties are deleted
\* through the admin site in between. import_data is run with --clear.
InitCommands ==
    /\ bookings = EmptyBag
    /\ pricing_rules_table = EmptyBag
    /\ base_price_per_night = [p \in Props |-> Numeric2(BasePriceOf(p))]
    /\ list_resp = NoResp
    /\ CalcIdle
    /\ properties = <<>>
    /\ clock = 0
    /\ property_amenities = {}
    /\ property_images = EmptyBag
    /\ delete_result = NoResp
    /\ geo_req = NoResp
    /\ geo_resp = NoResp
    /\ view_queryset = NoResp
    /\ detail_req = NoResp
    /\ detail_resp = NoResp
    /\ workers = [w \in Procs |-> WorkerIdle]
    /\ sample_data_db \in SampleDatabases
    /\ command = NoResp

NextCommands ==
    \/ LoadSampleData
    \/ ImportData(TRUE)
    \/ \E p \in PropertyIds : DeleteProperty(p)

SpecCommands == InitCommands /\ [][NextCommands]_vars

\* ------------------------------------------- filters.py: filter_amenities
\* Texts are sequences of characters. The amenity column holds names from
\* AMENITY_CHOICES; Chars gives the characters of a stored name.
FilterAmenities == {"TV", "Washer", "Dryer"}
Chars(name) ==
    CASE name = "TV" -> <<"T", "V">>
      [] name = "Washer" -> <<"W", "a", "s", "h", "e", "r">>
      [] name = "Dryer" -> <<"D", "r", "y", "e", "r">>
      [] name = "WiFi" -> <<"W", "i", "F", "i">>

\* The values of ?amenities= that are tried:
\* '', ' ', 'tv', 'er', 'tvs', 'Washer,Dryer', ' washer , tv ', 'tv,', ','
AmenityTexts ==
    {<<>>,
     <<" ">>,
     <<"t", "v">>,
     <<"e", "r">>,
     <<"t", "v", "s">>,
     <<"W", "a", "s", "h", "e", "r", ",", "D", "r", "y", "e", "r">>,
     <<" ", "w", "a", "s", "h", "e", "r", " ", ",", " ", "t", "v", " ">>,
     <<"t", "v", ",">>,
     <<",">>}
\* The parameter is absent or carries one of the texts.
AmenityParams ==
    {[given |-> FALSE, text |-> <<>>]} \cup [given : {TRUE}, text : AmenityTexts]

\* Case folding of icontains.
Lower(c) ==
    CASE c = "T" -> "t" [] c = "V" -> "v" [] c = "W" -> "w" [] c = "D" -> "d"
      [] c = "F" -> "f" [] OTHER -> c
LowerSeq(text) == [i \in 1..Len(text) |-> Lower(text[i])]

Contains(text, needle) ==
    \E k \in 0..(Len(text) - Len(needle)) :
        \A i \in 1..Len(needle) : text[k + i] = needle[i]

\* amenity__icontains=needle
icontains(text, needle) == Contains(LowerSeq(text), LowerSeq(needle))

\* str.strip()
RECURSIVE lstrip(_)
lstrip(text) ==
    IF text # <<>> /\ Head(text) = " " THEN lstrip(Tail(text)) ELSE text
RECURSIVE rstrip(_)
rstrip(text) ==
    IF text # <<>> /\ text[Len(text)] = " "
    THEN rstrip(SubSeq(text, 1, Len(text) - 1))
    ELSE text
strip(text) == rstrip(lstrip(text))

\* str.split(','): one more piece than there are commas.
RECURSIVE split(_)
split(text) ==
    IF \E i \in 1..Len(text) : text[i] = ","
    THEN LET i == CHOOSE i \in 1..Len(text) :
                     text[i] = "," /\ \A j \in 1..(i - 1) : text[j] # ","
         IN  <<SubSeq(text, 1, i - 1)>> \o split(SubSeq(text, i + 1, Len(text)))
    ELSE <<text>>

\* forms.CharField of the CharFilter: the value is stripped; no parameter
\* gives the empty value.
CharField_clean(param) == IF param.given THEN strip(param.text) ELSE <<>>

\* The rows of a queryset over properties as a bag of ids: a join with the
\* amenities table yields a property once for each amenity row it matches.
\* queryset.filter(amenities__amenity__icontains=amenity)
amenity_join(amen_tbl, rows, needle) ==
    LET matches(p) == Cardinality({a \in amen_tbl :
                          a.property = p /\ icontains(Chars(a.amenity), needle)})
        kept == {p \in DOMAIN rows : matches(p) > 0}
    IN  [p \in kept |-> rows[p] * matches(p)]

\* for amenity in amenity_list: queryset = queryset.filter(..)
RECURSIVE filter_each(_, _, _, _)
filter_each(amen_tbl, rows, amenity_list, i) ==
    IF i > Len(amenity_list) THEN rows
    ELSE filter_each(amen_tbl, amenity_join(amen_tbl, rows, strip(amenity_list[i])),
                     amenity_list, i + 1)

\* Mutant of distinct: the rows of the join are returned as they are.
distinct_None(rows) == rows

\* queryset.distinct()
distinct(rows) == [p \in DOMAIN rows |-> 1]

\* PropertyFilter.filter_amenities behind the FilterMethod of django-filter,
\* which skips the method for an empty value.
filter_amenities(amen_tbl, rows, param) ==
    LET value == CharField_clean(param)
    IN  IF value = <<>> THEN rows
        ELSE distinct(filter_each(amen_tbl, rows, split(value), 1))

\* The rows in the order of Meta.ordering = ['-created_at'].
RECURSIVE RowsInOrder(_, _)
RowsInOrder(tbl, rows) ==
    IF DOMAIN rows = {} THEN <<>>
    ELSE LET p == CHOOSE p \in DOMAIN rows :
                      \A q \in DOMAIN rows : tbl[q].created_at <= tbl[p].created_at
         IN  [i \in 1..rows[p] |-> p]
                 \o RowsInOrder(tbl, [q \in DOMAIN rows \ {p} |-> rows[q]])

\* GET /api/properties/?amenities=..
ListAmenities(param) ==
    /\ geo_resp = NoResp
    /\ geo_req' = [op |-> "amenities", amenities |-> param]
    /\ view_queryset' = get_queryset(properties, ParamAbsent, ParamAbsent, ParamAbsent)
    /\ LET rows == filter_amenities(property_amenities,
                                    [p \in DOMAIN properties |-> 1], param)
       IN  geo_resp' = [status |-> 200,
                        count |-> BagCardinality(rows),
                        results |-> RowsInOrder(properties, rows)]
    /\ UNCHANGED <<store, list_resp, calc_vars, catalog, detail_vars, workers, command_vars>>

FilterAmenityRows == [property : PropertyIds, amenity : FilterAmenities]

NextAmenity ==
    \/ (geo_resp = NoResp /\ CreateProperty(6, 6))
    \/ (geo_resp = NoResp /\ ChildRows < MaxChildRows
            /\ \E a \in FilterAmenityRows : CreateAmenity(a))
    \/ \E param \in AmenityParams : ListAmenities(param)
    \/ GeoReturn

SpecAmenity == InitGeo /\ [][NextAmenity]_vars

\* ----------------------------- views.py: retrieve, availability, geojson
Error405 == [status |-> 405, detail |-> "Method not allowed."]
Methods == {"GET", "DELETE"}

\* Mutant of confirmed_bookings: the status is not looked at.
confirmed_bookings_AnyStatus(tbl, p, by_check_in) ==
    LET own == OwnedBag(tbl, p)
        rows == DOMAIN own
        n == IF rows = {} THEN 0 ELSE BagCardinality(own)
    IN  {s \in [1..n -> rows] :
            /\ \A b \in rows : Cardinality({i \in 1..n : s[i] = b}) = own[b]
            /\ by_check_in =>
                  \A i \in 1..n : \A j \in 1..n :
                      i < j => s[i].check_in <= s[j].check_in}

\* The confirmed bookings of a property as the rows of a queryset: every
\* row once, by ascending check_in when the queryset is ordered on it,
\* otherwise (and among equal check_in) in any order.
confirmed_bookings(tbl, p, by_check_in) ==
    LET own == OwnedBag(tbl, p)
        rows == {b \in DOMAIN own : b.status = "confirmed"}
        confirmed == [b \in rows |-> own[b]]
        n == IF rows = {} THEN 0 ELSE BagCardinality(confirmed)
    IN  {s \in [1..n -> rows] :
            /\ \A b \in rows : Cardinality({i \in 1..n : s[i] = b}) = confirmed[b]
            /\ by_check_in =>
                  \A i \in 1..n : \A j \in 1..n :
                      i < j => s[i].check_in <= s[j].check_in}

\* [{'check_in': .., 'check_out': ..} for booking in confirmed_bookings]
unavailable_dates(rows) ==
    [i \in 1..Len(rows) |->
        [check_in |-> rows[i].check_in, check_out |-> rows[i].check_out]]

DetailRequest(op, method, pk) == [op |-> op, method |-> method, pk |-> pk]

\* PropertyDetailSerializer(instance).data
PropertyDetail(pk, rows) ==
    [status |-> 200,
     id |-> pk,
     latitude |-> properties[pk].latitude,
     longitude |-> properties[pk].longitude,
     bedrooms |-> properties[pk].bedrooms,
     amenities |-> {a.amenity : a \in {x \in property_amenities : x.property = pk}},
     images |-> BagCardinality(OwnedBag(property_images, pk)),
     unavailable_dates |-> unavailable_dates(rows)]

\* Mutant of Retrieve: the view set is a ModelViewSet, whose detail route
\* also serves DELETE by destroying the row.
Retrieve_ModelViewSet(method, pk) ==
    /\ detail_resp = NoResp
    /\ detail_req' = DetailRequest("retrieve", method, pk)
    /\ IF ~get_object(properties, bookings, pk, NoParam, NoParam)
       THEN /\ detail_resp' = Error404
            /\ UNCHANGED <<store, catalog>>
       ELSE IF method = "DELETE"
       THEN /\ detail_resp' = [status |-> 204]
            /\ properties' = [q \in DOMAIN properties \ {pk} |-> properties[q]]
            /\ bookings' = WithoutOwned(bookings, pk)
            /\ pricing_rules_table' = WithoutOwned(pricing_rules_table, pk)
            /\ property_images' = WithoutOwned(property_images, pk)
            /\ property_amenities' = {a \in property_amenities : a.property # pk}
            /\ UNCHANGED <<base_price_per_night, clock, delete_result>>
       ELSE /\ \E rows \in confirmed_bookings(bookings, pk, FALSE) :
                   detail_resp' = PropertyDetail(pk, rows)
            /\ UNCHANGED <<store, catalog>>
    /\ UNCHANGED <<list_resp, calc_vars, geo_vars, workers, command_vars>>

\* /api/properties/{pk}/ on the ReadOnlyModelViewSet: GET is retrieve(),
\* every other method is answered 405 before any handler runs.
Retrieve(method, pk) ==
    /\ detail_resp = NoResp
    /\ detail_req' = DetailRequest("retrieve", method, pk)
    /\ IF method # "GET"
       THEN detail_resp' = Error405
       ELSE IF ~get_object(properties, bookings, pk, NoParam, NoParam)
       THEN detail_resp' = Error404
       ELSE \E rows \in confirmed_bookings(bookings, pk, FALSE) :
                detail_resp' = PropertyDetail(pk, rows)
    /\ UNCHANGED <<store, list_resp, calc_vars, catalog, geo_vars, workers, command_vars>>

\* GET /api/properties/{pk}/availability/
Availability(pk) ==
    /\ detail_resp = NoResp
    /\ detail_req' = DetailRequest("availability", "GET", pk)
    /\ IF ~get_object(properties, bookings, pk, NoParam, NoParam)
       THEN detail_resp' = Error404
       ELSE \E rows \in confirmed_bookings(bookings, pk, TRUE) :
                detail_resp' = [status |-> 200,
                                property_id |-> pk,
                                unavailable_dates |-> unavailable_dates(rows),
                                total_bookings |-> Len(unavailable_dates(rows))]
    /\ UNCHANGED <<store, list_resp, calc_vars, catalog, geo_vars, workers, command_vars>>

DetailReturn ==
    /\ detail_resp # NoResp
    /\ detail_req' = NoResp
    /\ detail_resp' = NoResp
    /\ UNCHANGED <<store, list_resp, calc_vars, catalog, geo_vars, workers, command_vars>>

\* Bookings are made and the calendar of a property is asked for.
NextCalendar ==
    \/ (detail_resp = NoResp /\ \E b \in BookingRows : CreateBooking(b))
    \/ \E pk \in PropertyIds : Availability(pk)
    \/ DetailReturn

SpecCalendar == Init /\ [][NextCalendar]_vars

\* GET /api/properties/geojson/: the list pipeline without pagination, every
\* row as a feature with its point.
geojson(tbl, latitude, longitude, radius_param, bedrooms) ==
    IF ~NumberFilterValid(latitude, longitude, radius_param)
    THEN {Error400("Enter a number.")}
    ELSE LET queryset == SearchFilter(OrderingFilter(DjangoFilterBackend(tbl,
                             get_queryset(tbl, latitude, longitude, radius_param),
                             bedrooms)))
         IN  {[status |-> 200,
               type |-> "FeatureCollection",
               features |-> [i \in 1..Len(r) |->
                                [id |-> r[i], coordinates |-> tbl[r[i]].location]]] :
                  r \in Evaluate(tbl, queryset)}

GeoJson(latitude, longitude, radius_param, bedrooms) ==
    /\ geo_resp = NoResp
    /\ geo_req' = GeoRequest("geojson", latitude, longitude, radius_param, bedrooms)
    /\ geo_resp' \in geojson(properties, latitude, longitude, radius_param, bedrooms)
    /\ view_queryset' = get_queryset(properties, latitude, longitude, radius_param)
    /\ UNCHANGED <<store, list_resp, calc_vars, catalog, detail_vars, workers, command_vars>>

\* No request is being served.
ApiIdle ==
    /\ list_resp = NoResp
    /\ pc = "idle"
    /\ calc_resp = NoResp
    /\ geo_resp = NoResp
    /\ detail_resp = NoResp

\* Every operation of the API, one request at a time, over a database that
\* the commands and the admin site write between the requests.
NextApi ==
    \/ (ApiIdle /\ CreateProperty(6, 6))
    \/ (ApiIdle /\ ChildRows < MaxChildRows /\ \E a \in AmenityRows : CreateAmenity(a))
    \/ (ApiIdle /\ ChildRows < MaxChildRows /\ \E i \in ImageRows : CreateImage(i))
    \/ (ApiIdle /\ ChildRows < MaxChildRows /\ \E r \in PricingRuleRows :
            r.start_date = 1 /\ r.end_date = 2 /\ r.price_multiplier = 150
                /\ CreatePricingRule(r))
    \/ (ApiIdle /\ ChildRows < MaxChildRows /\ \E b \in BookingRows :
            b.check_in = 2 /\ b.check_out = 2 /\ CreateBooking(b))
    \/ (ApiIdle /\ \E ci \in {NoParam, 1}, co \in {NoParam, 1} :
            List(DOMAIN properties, ci, co))
    \/ ListReturn
    \/ (ApiIdle /\ \E ci \in {NoParam, BadDate, 1, 2}, co \in {NoParam, BadDate, 1, 2} :
            CalcPriceBegin(1, ci, co))
    \/ CalcPriceNight
    \/ CalcPriceFinish
    \/ CalcPriceReturn
    \/ (ApiIdle /\ \E la \in {6, ParamText}, be \in {ParamAbsent, 1} :
            ListGeo(la, 6, ParamAbsent, be))
    \/ (ApiIdle /\ \E la \in {6, ParamAbsent, ParamText} :
            Nearby(la, 6, ParamAbsent, ParamAbsent))
    \/ (ApiIdle /\ \E la \in {6, ParamText}, be \in {ParamAbsent, 1} :
            GeoJson(la, 6, ParamAbsent, be))
    \/ GeoReturn
    \/ (ApiIdle /\ \E m \in Methods, pk \in PropertyIds : Retrieve(m, pk))
    \/ (ApiIdle /\ \E pk \in PropertyIds : Availability(pk))
    \/ DetailReturn

SpecApi == Init /\ [][NextApi]_vars

\* ------------------------------------------------- concurrent requests
\* calculate_price as one request computes it from start to end: the while
\* loop, and the response for given query parameters and rule sequence.
RECURSIVE price_loop(_, _, _, _, _, _)
price_loop(base, rules, d, co, total, prices) ==
    IF LoopCond(d, co)
    THEN LET night == NightEntry(base, rules, d)
         IN  price_loop(base, rules, d + 1, co,
                        DecAdd(total, night.night_price),
                        Append(prices, night.entry))
    ELSE [total_price |-> total, daily_prices |-> prices]

calculate_price(props, tbl, base, rules, p, check_in_str, check_out_str) ==
    IF check_in_str = BadDate \/ check_out_str = BadDate
    THEN Error400("Enter a valid date.")
    ELSE IF ~get_object(props, tbl, p, check_in_str, check_out_str)
    THEN Error404
    ELSE IF check_in_str = NoParam \/ check_out_str = NoParam
    THEN Error400("check_in and check_out dates are required")
    ELSE IF InvalidRange(check_in_str, check_out_str)
    THEN Error400("check_out must be after check_in")
    ELSE LET out == price_loop(base[p], rules, check_in_str, check_out_str,
                               Decimal_0_00, <<>>)
         IN  [status |-> 200,
              property_id |-> p,
              check_in |-> check_in_str,
              check_out |-> check_out_str,
              nights |-> check_out_str - check_in_str,
              base_price_per_night |-> DecStr(base[p]),
              total_price |-> DecStr(out.total_price),
              average_price_per_night |->
                  AveragePrice(out.total_price, check_out_str - check_in_str),
              daily_breakdown |-> out.daily_prices]

\* Mutant of RulesForNight: the rules are queried again for every night.
RulesForNight_Requery(cached, tbl, p) == pricing_rules_all(tbl, p)

\* for rule in pricing_rules: the queryset was evaluated by the first pass
\* and answers every later pass from its result cache.
RulesForNight(cached, tbl, p) == {cached}

\* Mutant of RunningTotal: one total is shared by the worker processes.
RunningTotal_Shared(ws, w) == ws[1].total_price

\* total_price is a local variable of the call.
RunningTotal(ws, w) == ws[w].total_price

CalcRequest(p, check_in_str, check_out_str) ==
    [op |-> "calc", property |-> p, check_in |-> check_in_str,
     check_out |-> check_out_str]
ListRequest(queryset, req_in, req_out) ==
    [op |-> "list", queryset |-> queryset, check_in |-> req_in,
     check_out |-> req_out]

\* calculate_price on worker w, from get_object() to the first test of the
\* while loop.
WorkerCalcBegin(w, p, check_in_str, check_out_str) ==
    /\ workers[w].pc = "idle"
    /\ LET me == [WorkerIdle EXCEPT !.req = CalcRequest(p, check_in_str, check_out_str)]
           failed == calculate_price(properties, bookings, base_price_per_night,
                                     <<>>, p, check_in_str, check_out_str)
       IN  IF check_in_str \in {NoParam, BadDate} \/ check_out_str \in {NoParam, BadDate}
              \/ ~get_object(properties, bookings, p, check_in_str, check_out_str)
              \/ InvalidRange(check_in_str, check_out_str)
           THEN workers' = [workers EXCEPT ![w] =
                               [me EXCEPT !.pc = "done", !.resp = failed]]
           ELSE \E rules \in pricing_rules_all(pricing_rules_table, p) :
                    workers' = [workers EXCEPT ![w] =
                                   [me EXCEPT !.pc = "loop",
                                              !.property_obj = p,
                                              !.check_in = check_in_str,
                                              !.check_out = check_out_str,
                                              !.nights = check_out_str - check_in_str,
                                              !.pricing_rules = rules,
                                              !.current_date = check_in_str]]
    /\ UNCHANGED <<store, list_resp, calc_vars, catalog, geo_vars, detail_vars,
                   command_vars>>

\* One iteration of the while loop on worker w.
WorkerCalcNight(w) ==
    /\ workers[w].pc = "loop"
    /\ LoopCond(workers[w].current_date, workers[w].check_out)
    /\ \E rules \in RulesForNight(workers[w].pricing_rules, pricing_rules_table,
                                  workers[w].property_obj) :
           LET night == NightEntry(base_price_per_night[workers[w].property_obj],
                                   rules, workers[w].current_date)
           IN  workers' = [workers EXCEPT
                   ![w].total_price = DecAdd(RunningTotal(workers, w), night.night_price),
                   ![w].daily_prices = Append(workers[w].daily_prices, night.entry),
                   ![w].current_date = workers[w].current_date + 1]
    /\ UNCHANGED <<store, list_resp, calc_vars, catalog, geo_vars, detail_vars,
                   command_vars>>

WorkerCalcFinish(w) ==
    /\ workers[w].pc = "loop"
    /\ ~LoopCond(workers[w].current_date, workers[w].check_out)
    /\ workers' = [workers EXCEPT
           ![w].pc = "done",
           ![w].resp =
               [status |-> 200,
                property_id |-> workers[w].property_obj,
                check_in |-> workers[w].check_in,
                check_out |-> workers[w].check_out,
                nights |-> workers[w].nights,
                base_price_per_night |->
                    DecStr(base_price_per_night[workers[w].property_obj]),
                total_price |-> DecStr(workers[w].total_price),
                average_price_per_night |->
                    AveragePrice(workers[w].total_price, workers[w].nights),
                daily_breakdown |-> workers[w].daily_prices]]
    /\ UNCHANGED <<store, list_resp, calc_vars, catalog, geo_vars, detail_vars,
                   command_vars>>

\* The list request on worker w: the filter builds its query from the
\* parameters of the request; the query runs when the response is rendered.
WorkerListBegin(w, queryset, req_in, req_out) ==
    /\ workers[w].pc = "idle"
    /\ workers' = [workers EXCEPT ![w] =
                      [WorkerIdle EXCEPT !.pc = "query",
                                         !.req = ListRequest(queryset, req_in, req_out),
                                         !.check_in = req_in,
                                         !.check_out = req_out]]
    /\ UNCHANGED <<store, list_resp, calc_vars, catalog, geo_vars, detail_vars,
                   command_vars>>

WorkerListEvaluate(w) ==
    /\ workers[w].pc = "query"
    /\ workers' = [workers EXCEPT
           ![w].pc = "done",
           ![w].resp = [status |-> 200,
                        results |-> PropertyFilter_qs(bookings, workers[w].req.queryset,
                                                      workers[w].check_in,
                                                      workers[w].check_out)]]
    /\ UNCHANGED <<store, list_resp, calc_vars, catalog, geo_vars, detail_vars,
                   command_vars>>

\* The response is sent; the locals of the request are gone.
WorkerReturn(w) ==
    /\ workers[w].pc = "done"
    /\ workers' = [workers EXCEPT ![w] = WorkerIdle]
    /\ UNCHANGED <<store, list_resp, calc_vars, catalog, geo_vars, detail_vars,
                   command_vars>>

\* The store that the concurrent requests read: the first property with or
\* without a confirmed booking on day 2 and with up to two rules that start
\* on day 1.
ConcRuleRows ==
    {r \in PricingRuleRows : r.property = 1 /\ r.start_date = 1 /\ r.end_date <= 2}
ConcRuleTables ==
    {EmptyBag} \cup {SetToBag({a}) (+) SetToBag({b}) : a \in ConcRuleRows, b \in ConcRuleRows}
                \cup {SetToBag({a}) : a \in ConcRuleRows}
ConcBookingTables ==
    {EmptyBag, SetToBag({[property |-> 1, check_in |-> 2, check_out |-> 2,
                          status |-> "confirmed"]})}

InitConc ==
    /\ bookings \in ConcBookingTables
    /\ pricing_rules_table \in ConcRuleTables
    /\ base_price_per_night = [p \in Props |-> Numeric2(BasePriceOf(p))]
    /\ list_resp = NoResp
    /\ CalcIdle
    /\ properties = InitialProperties
    /\ clock = Cardinality(Props)
    /\ property_amenities = {}
    /\ property_images = EmptyBag
    /\ delete_result = NoResp
    /\ geo_req = NoResp
    /\ geo_resp = NoResp
    /\ view_queryset = NoResp
    /\ detail_req = NoResp
    /\ detail_resp = NoResp
    /\ workers = [w \in Procs |-> WorkerIdle]
    /\ sample_data_db = NoSource
    /\ command = NoResp

NextConc ==
    \/ \E w \in Procs : \E p \in Props, co \in StayDates \cup {NoParam} :
           WorkerCalcBegin(w, p, 1, co)
    \/ \E w \in Procs : WorkerCalcNight(w)
    \/ \E w \in Procs : WorkerCalcFinish(w)
    \/ \E w \in Procs : \E ci \in {1, 3} : WorkerListBegin(w, Props, ci, 3)
    \/ \E w \in Procs : WorkerListEvaluate(w)
    \/ \E w \in Procs : WorkerReturn(w)

SpecConc == InitConc /\ [][NextConc]_vars

\* ============================================== list by distance and nearby
\* The geographic request being answered and the point it names.
GeoAnswered(op) == geo_resp # NoResp /\ geo_req.op = op
GeoCenter == Point(geo_req.longitude, geo_req.latitude)

\* latitude, longitude are numbers and radius is a number or absent.
GeoNumeric ==
    /\ geo_req.latitude \in Coords
    /\ geo_req.longitude \in Coords
    /\ geo_req.radius \in Radii \cup {ParamAbsent}

WithinRadius ==
    {p \in DOMAIN properties :
        DistanceSq(properties[p].location, GeoCenter)
            <= radius_of(geo_req.radius) * radius_of(geo_req.radius)}

\* The ids of a result list, and whether it is in ascending distance.
ResultIds(results) == {results[i] : i \in 1..Len(results)}
AscendingDistance(results) ==
    \A i \in 1..Len(results) : \A j \in 1..Len(results) :
        i < j => DistanceSq(properties[results[i]].location, GeoCenter)
                   <= DistanceSq(properties[results[j]].location, GeoCenter)

\* C18: a list request with numeric latitude and longitude, no ordering
\* parameter and no other filter returns exactly the properties within the
\* radius (10 km when none is given), in ascending distance from the point.
C18_ListWithinRadiusByDistance ==
    (GeoAnswered("list") /\ GeoNumeric /\ geo_req.bedrooms = ParamAbsent) =>
        /\ geo_resp.status = 200
        /\ ResultIds(geo_resp.results) = WithinRadius
        /\ AscendingDistance(geo_resp.results)

\* The half of C18 that the code meets: the properties returned are exactly
\* those within the radius.
ListWithinRadius ==
    (GeoAnswered("list") /\ GeoNumeric /\ geo_req.bedrooms = ParamAbsent) =>
        /\ geo_resp.status = 200
        /\ ResultIds(geo_resp.results) = WithinRadius
        /\ Len(geo_resp.results) = Cardinality(WithinRadius)

\* C19: a nearby request with numeric latitude, longitude and radius (10
\* when absent) returns exactly the properties within radius km of the
\* point, each once, in ascending distance, with count the number of
\* results, whatever list filter the request also carries.
C19_NearbyWithinRadiusByDistance ==
    (GeoAnswered("nearby") /\ GeoNumeric) =>
        /\ geo_resp.status = 200
        /\ ResultIds(geo_resp.results) = WithinRadius
        /\ Len(geo_resp.results) = Cardinality(WithinRadius)
        /\ AscendingDistance(geo_resp.results)
        /\ geo_resp.count = Len(geo_resp.results)
        /\ geo_resp.radius_km = radius_of(geo_req.radius)

\* A nearby request that also carries bedrooms=.., with a property outside
\* the radius and two inside it at different distances, the nearer one
\* stored later and not matching the bedrooms asked for.
C19_Witness ==
    /\ GeoAnswered("nearby")
    /\ GeoNumeric
    /\ geo_req.bedrooms # ParamAbsent
    /\ geo_req.radius = ParamAbsent
    /\ WithinRadius # DOMAIN properties
    /\ Len(geo_resp.results) = 2
    /\ geo_resp.results[1] > geo_resp.results[2]
    /\ properties[geo_resp.results[1]].bedrooms # geo_req.bedrooms
    /\ DistanceSq(properties[geo_resp.results[1]].location, GeoCenter)
          < DistanceSq(properties[geo_resp.results[2]].location, GeoCenter)

\* C20: a nearby request whose latitude or longitude is absent or empty, or
\* whose latitude, longitude or radius is no number, is answered 400 with an
\* error and nothing else: no results, no count.
C20_NearbyRejectsBadParams ==
    (GeoAnswered("nearby") /\ ~GeoNumeric) =>
        /\ geo_resp.status = 400
        /\ DOMAIN geo_resp = {"status", "error"}
        /\ (geo_req.latitude \in {ParamAbsent, ParamEmpty}
              \/ geo_req.longitude \in {ParamAbsent, ParamEmpty})
             => geo_resp = Error400("latitude and longitude are required")

\* A nearby request with good coordinates and a radius that is no number,
\* over a store with a property at the very point asked for.
C20_Witness ==
    /\ GeoAnswered("nearby")
    /\ geo_req.latitude \in Coords
    /\ geo_req.longitude \in Coords
    /\ geo_req.radius = ParamText
    /\ \E p \in DOMAIN properties : properties[p].location = GeoCenter
    /\ geo_resp.status = 400

\* ============================================================ the database
\* Every child row points to a stored property.
ChildrenHaveParent ==
    /\ \A b \in BagToSet(bookings) : b.property \in DOMAIN properties
    /\ \A r \in BagToSet(pricing_rules_table) : r.property \in DOMAIN properties
    /\ \A i \in BagToSet(property_images) : i.property \in DOMAIN properties
    /\ \A a \in property_amenities : a.property \in DOMAIN properties

\* A bag after the rows of property p, and no others, were taken out of it.
BagMinusOwned(before, after, p) ==
    /\ BagToSet(after) \subseteq BagToSet(before)
    /\ \A r \in BagToSet(before) :
           IF r.property = p
           THEN r \notin BagToSet(after)
           ELSE r \in BagToSet(after) /\ CopiesIn(r, after) = CopiesIn(r, before)

\* A step that makes a property disappear takes its children, and nothing
\* else, with it.
DeleteIsCascade ==
    \A p \in DOMAIN properties :
        p \notin DOMAIN properties' =>
            /\ DOMAIN properties' = DOMAIN properties \ {p}
            /\ \A q \in DOMAIN properties' : properties'[q] = properties[q]
            /\ BagMinusOwned(bookings, bookings', p)
            /\ BagMinusOwned(pricing_rules_table, pricing_rules_table', p)
            /\ BagMinusOwned(property_images, property_images', p)
            /\ property_amenities' = {a \in property_amenities : a.property # p}

\* C14: after any sequence of creations and Property deletions every
\* Amenity, Image, PricingRule and Booking belongs to one stored Property,
\* and deleting a Property removes all and only the rows it owns, the other
\* properties and their rows staying as they were.
C14_CascadeDelete == []ChildrenHaveParent /\ [][DeleteIsCascade]_vars

\* A property was deleted together with two rows it owned while a row of
\* another property stayed.
C14_Witness ==
    /\ delete_result # NoResp
    /\ delete_result.deleted = 3
    /\ delete_result.property \notin DOMAIN properties
    /\ ChildRows = 1
    /\ clock = Cardinality(DOMAIN properties) + 1

\* C15: every stored Booking, whichever command or form wrote it, has a
\* status that is one of confirmed, pending, cancelled, completed.
C15_BookingStatusIsAChoice ==
    \A b \in BagToSet(bookings) : b.status \in BOOKING_STATUS

\* ================================================================= the API
\* A step of a request: something of a request or of an answer changes.
ApiStep ==
    <<list_resp, calc_vars, geo_vars, detail_vars>>'
        # <<list_resp, calc_vars, geo_vars, detail_vars>>

\* C12: no step of an API request (list, retrieve, geojson, nearby,
\* availability, calculate_price), successful or not, changes the stored
\* Properties, Amenities, Images, PricingRules or Bookings.
C12_ApiReadsOnly == [][ApiStep => UNCHANGED <<database, clock>>]_vars

\* A DELETE sent to the detail route of a stored property that owns rows
\* has been answered.
C12_Witness ==
    /\ detail_resp # NoResp
    /\ detail_req.method = "DELETE"
    /\ detail_req.pk \in DOMAIN properties
    /\ \E b \in BagToSet(bookings) : b.property = detail_req.pk
    /\ detail_resp.status = 405

\* ===================================================== concurrent requests
WorkerDone(w, op) == workers[w].pc = "done" /\ workers[w].req.op = op

\* C13: whatever the interleaving of the steps of concurrent
\* calculate_price and list requests over an unchanged store, each request
\* is answered exactly as it would be if it ran alone.
C13_RequestsAreIndependent ==
    \A w \in Procs :
        /\ WorkerDone(w, "calc") =>
              workers[w].resp
                  = calculate_price(properties, bookings, base_price_per_night,
                                    workers[w].pricing_rules, workers[w].req.property,
                                    workers[w].req.check_in, workers[w].req.check_out)
        /\ WorkerDone(w, "list") =>
              workers[w].resp
                  = [status |-> 200,
                     results |-> {p \in workers[w].req.queryset :
                                     p \in PropertyFilter_qs(bookings, {p},
                                               workers[w].req.check_in,
                                               workers[w].req.check_out)}]

\* One worker has answered a stay of two nights or more while the other is
\* in the middle of its loop with a different running total.
C13_Witness ==
    /\ WorkerDone(1, "calc")
    /\ workers[1].resp.status = 200
    /\ workers[1].resp.nights >= 2
    /\ workers[2].pc = "loop"
    /\ workers[2].current_date > workers[2].check_in
    /\ workers[2].current_date < workers[2].check_out
    /\ workers[2].property_obj # workers[1].property_obj

\* C11: two calculate_price calls for the same property and dates that read
\* the same sequence of rules, with no write to the store between them,
\* return the same nights, total_price, average_price_per_night and
\* daily_breakdown.
C11_SameInputsSameOutput ==
    \A w1 \in Procs : \A w2 \in Procs :
        (/\ WorkerDone(w1, "calc")
         /\ WorkerDone(w2, "calc")
         /\ workers[w1].req = workers[w2].req
         /\ workers[w1].pricing_rules = workers[w2].pricing_rules)
            => workers[w1].resp = workers[w2].resp

\* Both calls priced the same stay of two nights over two rules that start
\* on the same day with different multipliers and cover different nights.
C11_Witness ==
    /\ WorkerDone(1, "calc")
    /\ WorkerDone(2, "calc")
    /\ workers[1].req = workers[2].req
    /\ workers[1].pricing_rules = workers[2].pricing_rules
    /\ workers[1].resp.status = 200
    /\ workers[1].resp.nights >= 2
    /\ Len(workers[1].pricing_rules) = 2
    /\ workers[1].pricing_rules[1].price_multiplier
           # workers[1].pricing_rules[2].price_multiplier

\* ============================================================ get_queryset
\* C21: get_queryset restricts to the radius, annotates and orders by
\* distance only when latitude and longitude are both given and latitude,
\* longitude and radius all convert to numbers; when a coordinate is absent
\* or empty or a conversion fails it returns the base queryset as it is
\* (every property, the model's ordering, no distance) and raises nothing.
C21_ProximityOnlyWhenNumeric ==
    (geo_resp # NoResp /\ geo_req.op \in {"list", "geojson"}) =>
        IF GeoNumeric
        THEN /\ view_queryset.ids = WithinRadius
             /\ view_queryset.order_by = "distance"
             /\ view_queryset.center = GeoCenter
        ELSE /\ view_queryset.ids = DOMAIN properties
             /\ view_queryset.order_by = "-created_at"
             /\ view_queryset.center = NoPoint

\* A list request with good coordinates and a radius that is no number over
\* a store with a property farther than 10 km from the point: the queryset
\* still selects it.
C21_Witness ==
    /\ GeoAnswered("list")
    /\ geo_req.latitude \in Coords
    /\ geo_req.longitude \in Coords
    /\ geo_req.radius \in {ParamText, ParamEmpty}
    /\ \E p \in DOMAIN properties :
           DistanceSq(properties[p].location, GeoCenter) > 10 * 10
    /\ view_queryset.ids = DOMAIN properties

\* =========================================================== Property.save
\* C22: after every save of a Property its location is the point
\* (longitude, latitude) of the latitude and longitude that were saved,
\* latitude 0 and longitude 0 included.
C22_LocationIsSavedPoint ==
    \A p \in DOMAIN properties :
        properties[p].location = Point(properties[p].longitude, properties[p].latitude)

\* What save() does establish: the location is the saved point whenever
\* neither coordinate is 0.
LocationIsSavedPointOffAxes ==
    \A p \in DOMAIN properties :
        (properties[p].latitude # 0 /\ properties[p].longitude # 0) =>
            properties[p].location = Point(properties[p].longitude, properties[p].latitude)

\* ========================================================= amenities filter
\* The names asked for: the pieces of the comma-separated value, trimmed.
AskedNames ==
    LET pieces == split(strip(geo_req.amenities.text))
    IN  {strip(pieces[i]) : i \in 1..Len(pieces)}
Owns(p, asked) ==
    \E a \in property_amenities :
        a.property = p /\ icontains(Chars(a.amenity), asked)

\* The results are what the filter is said to keep, read from the store.
KeptOnce ==
    /\ \A i \in 1..Len(geo_resp.results) : \A j \in 1..Len(geo_resp.results) :
           i # j => geo_resp.results[i] # geo_resp.results[j]
    /\ geo_resp.count = Len(geo_resp.results)
OwnersOfAll ==
    {p \in DOMAIN properties : \A asked \in AskedNames : Owns(p, asked)}

\* C23: the amenities filter keeps exactly the properties that own, for
\* every trimmed name of the comma-separated list, an amenity whose name
\* contains it without regard to case; every kept property appears once;
\* a value that is absent, empty or only whitespace leaves the list as it
\* is.
C23_AllRequestedAmenitiesOrBlank ==
    GeoAnswered("amenities") =>
        /\ KeptOnce
        /\ IF ~geo_req.amenities.given \/ strip(geo_req.amenities.text) = <<>>
           THEN ResultIds(geo_resp.results) = DOMAIN properties
           ELSE ResultIds(geo_resp.results) = OwnersOfAll

\* C23 as stated: only the empty and the absent value leave the list as it
\* is; every other value, a blank one included, is a list of names.
C23_AllRequestedAmenities ==
    GeoAnswered("amenities") =>
        /\ \A i \in 1..Len(geo_resp.results) : \A j \in 1..Len(geo_resp.results) :
               i # j => geo_resp.results[i] # geo_resp.results[j]
        /\ geo_resp.count = Len(geo_resp.results)
        /\ IF ~geo_req.amenities.given \/ geo_req.amenities.text = <<>>
           THEN ResultIds(geo_resp.results) = DOMAIN properties
           ELSE ResultIds(geo_resp.results)
                    = {p \in DOMAIN properties : \A asked \in AskedNames : Owns(p, asked)}

\* 'er' is asked for; one property owns Washer and Dryer and is listed,
\* another owns only TV and is not.
C23_Witness ==
    /\ GeoAnswered("amenities")
    /\ geo_req.amenities.text = <<"e", "r">>
    /\ \E p \in DOMAIN properties :
           /\ [property |-> p, amenity |-> "Washer"] \in property_amenities
           /\ [property |-> p, amenity |-> "Dryer"] \in property_amenities
           /\ p \in ResultIds(geo_resp.results)
    /\ \E q \in DOMAIN properties :
           /\ [property |-> q, amenity |-> "TV"] \in property_amenities
           /\ q \notin ResultIds(geo_resp.results)

\* ============================================================= availability
\* The date ranges of the confirmed bookings of a property, with how many
\* bookings have each.
ConfirmedRanges(p) ==
    LET rows == {b \in BagToSet(bookings) : b.property = p /\ b.status = "confirmed"}
        ranges == {[check_in |-> b.check_in, check_out |-> b.check_out] : b \in rows}
    IN  [r \in ranges |->
            CopiesIn([property |-> p, check_in |-> r.check_in,
                      check_out |-> r.check_out, status |-> "confirmed"], bookings)]
AvailabilityAnswered ==
    /\ detail_resp # NoResp
    /\ detail_req.op = "availability"
    /\ detail_resp.status = 200

\* C24: the availability endpoint lists in unavailable_dates one entry for
\* each confirmed booking of the property and nothing else, in ascending
\* check_in order, and total_bookings is the number of entries.
C24_AvailabilityListsConfirmed ==
    AvailabilityAnswered =>
        LET entries == detail_resp.unavailable_dates
            ranges == ConfirmedRanges(detail_req.pk)
        IN  /\ \A i \in 1..Len(entries) : entries[i] \in DOMAIN ranges
            /\ \A r \in DOMAIN ranges :
                   Cardinality({i \in 1..Len(entries) : entries[i] = r}) = ranges[r]
            /\ \A i \in 1..Len(entries) : \A j \in 1..Len(entries) :
                   i < j => entries[i].check_in <= entries[j].check_in
            /\ detail_resp.total_bookings = Len(entries)

\* The property has two confirmed bookings that start on different days and
\* both are listed, the earlier one first.
C24_Witness ==
    /\ AvailabilityAnswered
    /\ Len(detail_resp.unavailable_dates) = 2
    /\ detail_resp.unavailable_dates[1].check_in < detail_resp.unavailable_dates[2].check_in
    /\ \E b \in BagToSet(bookings) :
           b.property = detail_req.pk /\ b.status = "confirmed"

\* ========================================== calculate_price: bad parameters
CalcAnswered == calc_resp # NoResp
Missing(v) == v = NoParam

\* C25: calculate_price answers 400 'check_in and check_out dates are
\* required' when a date is missing or empty and 400 'Invalid date format.
\* Use YYYY-MM-DD' when a date is no valid date, computing no price; a
\* breakdown is returned only for two dates with check_out > check_in.
C25_BadParametersRejected ==
    CalcAnswered =>
        /\ (Missing(calc_req.check_in) \/ Missing(calc_req.check_out)) =>
               calc_resp = Error400("check_in and check_out dates are required")
        /\ (/\ ~Missing(calc_req.check_in)
            /\ ~Missing(calc_req.check_out)
            /\ BadDate \in {calc_req.check_in, calc_req.check_out}) =>
               calc_resp = Error400("Invalid date format. Use YYYY-MM-DD")
        /\ calc_resp.status = 200 =>
               /\ calc_req.check_in \in StayDates
               /\ calc_req.check_out \in StayDates
               /\ calc_req.check_out > calc_req.check_in

\* What the code does meet: a request with a date that is missing or no
\* date is answered 400 with no price in the answer, and a breakdown is
\* returned only for two dates with check_out > check_in.
BadParametersAnswered400 ==
    CalcAnswered =>
        /\ (\/ Missing(calc_req.check_in)
            \/ Missing(calc_req.check_out)
            \/ BadDate \in {calc_req.check_in, calc_req.check_out}) =>
               /\ calc_resp.status = 400
               /\ DOMAIN calc_resp = {"status", "error"}
               /\ daily_prices = <<>>
        /\ calc_resp.status = 200 =>
               /\ calc_req.check_in \in StayDates
               /\ calc_req.check_out \in StayDates
               /\ calc_req.check_out > calc_req.check_in

\* ===================================================== management commands
\* A step that is a run of load_sample_data.
LoadRun ==
    /\ command' # command
    /\ command'.name = "load_sample_data"

\* C26: a run of load_sample_data that finds a Property creates, changes
\* and deletes nothing, and a run that follows a run of load_sample_data on
\* the tables as that run left them changes nothing either: twice in a row
\* leaves what once leaves.
C26_LoadIsNoOpOnData ==
    [][LoadRun =>
          /\ DOMAIN properties # {} => UNCHANGED <<database, clock>>
          /\ command'.repeat => UNCHANGED <<database, clock>>]_vars

\* load_sample_data has been run twice in a row on a file with two good
\* properties, and the second run was skipped.
C26_Witness ==
    /\ command # NoResp
    /\ command.name = "load_sample_data"
    /\ command.repeat
    /\ command.result = "skipped"
    /\ command.found = 2
    /\ Tables = command.after

\* The last command was import_data --clear, it reported no error, and the
\* tables are as it left them.
ImportCompleted ==
    /\ command # NoResp
    /\ command.name = "import_data"
    /\ command.clear
    /\ command.result = "done"
    /\ Tables = command.after
SourceIds == {sample_data_db.properties[i].id : i \in 1..Len(sample_data_db.properties)}
\* The rows of a table of the file that belong to a property of the file,
\* as a bag of rows of the store.
Imported(rows, columns(_)) ==
    LET kept == {i \in 1..Len(rows) : rows[i].property_id \in SourceIds}
        vals == {columns(rows[i]) : i \in kept}
    IN  [v \in vals |-> Cardinality({i \in kept : columns(rows[i]) = v})]
AmenityColumns(r) ==
    [property |-> command.property_map[r.property_id], amenity |-> r.amenity]
ImageColumns(r) ==
    [property |-> command.property_map[r.property_id], is_primary |-> r.is_primary]
RuleColumns(r) ==
    [property |-> command.property_map[r.property_id], start_date |-> r.start_date,
     end_date |-> r.end_date, price_multiplier |-> r.price_multiplier]
BookingColumns(r) ==
    [property |-> command.property_map[r.property_id], check_in |-> r.check_in,
     check_out |-> r.check_out, status |-> r.status]

\* C27: after import_data --clear has completed without error, whatever
\* the tables held before, there is exactly one Property for each property
\* row of the file, every Property was created by this run, and the child
\* tables hold exactly the rows of the file whose property_id is that of a
\* property of the file, each pointing to the Property made for it; the
\* other child rows of the file are skipped and are no error.
C27_ImportClearReplacesStore ==
    ImportCompleted =>
        LET src == sample_data_db
            property_map == command.property_map
        IN  /\ DOMAIN property_map = SourceIds
            /\ \A a \in SourceIds : \A b \in SourceIds :
                   a # b => property_map[a] # property_map[b]
            /\ DOMAIN properties = {property_map[a] : a \in SourceIds}
            /\ Cardinality(DOMAIN properties) = Len(src.properties)
            /\ \A i \in 1..Len(src.properties) :
                   /\ properties[property_map[src.properties[i].id]].latitude
                          = src.properties[i].latitude
                   /\ properties[property_map[src.properties[i].id]].longitude
                          = src.properties[i].longitude
            /\ \A p \in DOMAIN properties : properties[p].created_at > command.started
            /\ property_amenities = DOMAIN Imported(src.amenities, AmenityColumns)
            /\ property_images = Imported(src.images, ImageColumns)
            /\ pricing_rules_table = Imported(src.pricing_rules, RuleColumns)
            /\ bookings = Imported(src.bookings, BookingColumns)

\* import_data --clear has completed on a store that held two properties,
\* from a file with two properties, an amenity row of one of them and an
\* amenity row of no property of the file.
C27_Witness ==
    /\ ImportCompleted
    /\ command.found = 2
    /\ Len(sample_data_db.properties) = 2
    /\ sample_data_db.amenities = <<SrcAmenity(3), SrcAmenity(2)>>
    /\ Cardinality(property_amenities) = 1
    /\ \A p \in DOMAIN properties : properties[p].created_at > 2

\* ================================================ the filter and its inputs
\* C28: the availability filter acts only when check_in and check_out are
\* both supplied: with one of them absent or empty the queryset comes back
\* as it was; with both, the two calls of the filter method (one for each
\* parameter) give the result of one call.
C28_FilterNeedsBothDates ==
    list_resp # NoResp =>
        /\ (list_resp.check_in = NoParam \/ list_resp.check_out = NoParam)
               => list_resp.results = list_resp.queryset
        /\ ListedWithDates
               => list_resp.results
                      = filter_available_dates(bookings, list_resp.queryset,
                                               list_resp.check_in, list_resp.check_out)

\* A request with check_in only over a queryset that holds a property with
\* a confirmed booking: the property is listed.
C28_Witness ==
    /\ list_resp # NoResp
    /\ list_resp.check_in # NoParam
    /\ list_resp.check_out = NoParam
    /\ \E p \in list_resp.queryset :
           /\ p \in list_resp.results
           /\ \E b \in BookingsOf(bookings, p) :
                  b.status = "confirmed" /\ b.check_out >= list_resp.check_in

\* ======================================================== loop termination
\* An iteration of the pricing loop: an entry is appended to the breakdown.
Iteration == pc = "loop" /\ daily_prices' # daily_prices

\* C29: the pricing loop terminates for every valid request and rule list:
\* each iteration moves the current date on by exactly one day, a matching
\* rule or none; the loop is left after exactly nights iterations; and the
\* response is eventually produced.
C29_LoopTerminates ==
    /\ [](pc = "loop" => /\ Len(daily_prices) = current_date - check_in
                         /\ current_date <= check_out)
    /\ [][Iteration => /\ current_date' = current_date + 1
                       /\ Len(daily_prices') = Len(daily_prices) + 1]_vars
    /\ [][(pc = "loop" /\ pc' = "done") =>
             /\ Len(daily_prices) = nights
             /\ calc_resp'.status = 200]_vars
    /\ (pc = "loop") ~> (pc = "done" /\ calc_resp # NoResp)

\* A stay of two nights or more has been answered; two rules overlap on
\* its first night and another night matched no rule.
C29_Witness ==
    /\ Ok200
    /\ nights >= 2
    /\ Len(pricing_rules) = 2
    /\ Covers(pricing_rules[1], check_in)
    /\ Covers(pricing_rules[2], check_in)
    /\ \E i \in 1..Len(daily_prices) : daily_prices[i].pricing_rule = BaseRate

====
